---- MODULE Spec2Model ----
(***************************************************************************)
(* Tool registry resolution of the OpenSearch MCP server:                  *)
(*   tools/config.py           apply_custom_tool_config and its helpers    *)
(*   tools/tool_filter.py      process_tool_filter, the write gate         *)
(*   tools/generic_api_tool.py generic_opensearch_api_tool                 *)
(* Python strings are TLA+ strings; they are taken apart with Len, SubSeq  *)
(* and \o, so that lower(), the regular expressions and the dotted keys    *)
(* are computed character by character.  A Python dict is a function, or a *)
(* sequence of entries where the iteration order decides the outcome.      *)
(***************************************************************************)
EXTENDS Naturals, Sequences, FiniteSets, TLC

VARIABLES
    default_tool_registry,          \* tools.tools.TOOL_REGISTRY, the process-wide registry
    tool_registry,                  \* a registry object owned by the caller
    custom_registry,                \* the registry returned by the last apply_custom_tool_config
    outcome,                        \* what the last operation did (arguments, result or error)
    _resolved_allow_write_setting,  \* tool_filter._resolved_allow_write_setting
    env_allow_write,                \* os.environ['OPENSEARCH_SETTINGS_ALLOW_WRITE']
    calls                           \* operations run so far

vars == <<default_tool_registry, tool_registry, custom_registry, outcome,
          _resolved_allow_write_setting, env_allow_write, calls>>

\* Operations in one behaviour.
MaxCalls == 2

\* Operations in one behaviour when the last one reads the write setting.
MaxServerCalls == 3

\* Clients built in one behaviour.
MaxClientCalls == 1

None == "None"

(***************************************************************************)
(* Strings                                                                 *)
(***************************************************************************)
Char(s, i) == SubSeq(s, i, i)

UpperLetters == "ABCDEFGHIJKLMNOPQRSTUVWXYZ"
LowerLetters == "abcdefghijklmnopqrstuvwxyz"
Digits == "0123456789"

\* the characters of a string, as a set
CharsOf(s) == {Char(s, i) : i \in 1..Len(s)}

UpperSet == CharsOf(UpperLetters)
LowerSet == CharsOf(LowerLetters)
DigitSet == CharsOf(Digits)

ToLower == [c \in UpperSet |-> Char(LowerLetters, CHOOSE i \in 1..Len(UpperLetters) : Char(UpperLetters, i) = c)]
ToUpper == [c \in LowerSet |-> Char(UpperLetters, CHOOSE i \in 1..Len(UpperLetters) : Char(LowerLetters, i) = c)]

LowerChar(c) == IF c \in UpperSet THEN ToLower[c] ELSE c

UpperChar(c) == IF c \in LowerSet THEN ToUpper[c] ELSE c

RECURSIVE Lower(_)
\* str.lower()
Lower(s) ==
    IF Len(s) = 0 THEN ""
    ELSE LowerChar(Char(s, 1)) \o Lower(SubSeq(s, 2, Len(s)))

RECURSIVE Upper(_)
\* str.upper()
Upper(s) ==
    IF Len(s) = 0 THEN ""
    ELSE UpperChar(Char(s, 1)) \o Upper(SubSeq(s, 2, Len(s)))

\* str.startswith(p)
StartsWith(s, p) == Len(p) <= Len(s) /\ SubSeq(s, 1, Len(p)) = p

\* p in s, for strings
Contains(s, p) ==
    \E i \in 1..(Len(s) + 1) : StartsWith(SubSeq(s, i, Len(s)), p)

\* \w of Python's re, on the characters the model uses
WordChars == UpperSet \cup LowerSet \cup DigitSet \cup {"_"}

IsWordChar(c) == c \in WordChars

\* [a-zA-Z0-9_-]
NameChars == WordChars \cup {"-"}

IsNameChar(c) == c \in NameChars

\* the sequence of entries of a dict, as the set of its entries
Range(seq) == {seq[i] : i \in 1..Len(seq)}

(***************************************************************************)
(* tools/config.py                                                         *)
(***************************************************************************)
DISPLAY_NAME_STRING == "display_name"
DESCRIPTION_STRING == "description"

\* FIELD_ALIASES, each list in the order of the source
DisplayNameAliases == <<"name", "displayName", "display_name", "customName">>
DescriptionAliases == <<"description", "desc", "customDescription">>

_find_actual_field(field_alias) ==
    IF field_alias \in Range(DisplayNameAliases) THEN DISPLAY_NAME_STRING
    ELSE IF field_alias \in Range(DescriptionAliases) THEN DESCRIPTION_STRING
    ELSE None

\* re.match(r'^[a-zA-Z0-9_-]+$', name) is not None.  Python's $ also matches
\* before one trailing newline.
is_valid_display_name_pattern(name) ==
    LET body == IF Len(name) > 0 /\ Char(name, Len(name)) = "\n"
                THEN SubSeq(name, 1, Len(name) - 1) ELSE name
    IN  /\ Len(body) >= 1
        /\ \A i \in 1..Len(body) : IsNameChar(Char(body, i))

\* A normalised per-tool configuration: the canonical fields that were set.
EmptyFields == [f \in {} |-> ""]

SetField(cfg, f, v) == [k \in (DOMAIN cfg) \cup {f} |-> IF k = f THEN v ELSE cfg[k]]

\* dict.get(DISPLAY_NAME_STRING)
GetDisplayName(cfg) == IF DISPLAY_NAME_STRING \in DOMAIN cfg THEN cfg[DISPLAY_NAME_STRING] ELSE None

\* Python truthiness of what dict.get returned: None and '' are falsy.
Truthy(v) == v # None /\ v # ""

Ok(v) == [ok |-> TRUE, value |-> v, error |-> None, detail |-> <<>>]
Raise(kind, detail) == [ok |-> FALSE, value |-> <<>>, error |-> kind, detail |-> detail]

\* the keys of one tool's block that are aliases of the canonical field
AliasKeysOf(custom_config, field) ==
    SelectSeq([i \in 1..Len(custom_config) |-> custom_config[i].key],
              LAMBDA k : _find_actual_field(k) = field)

RECURSIVE MergeUnknownKeys(_, _, _, _)
\* The keys that are no alias merged into the configuration of the tool.
MergeUnknownKeys(original_tool_name, custom_config, i, acc) ==
    IF i > Len(custom_config) THEN Ok(acc)
    ELSE
        LET actual_field == _find_actual_field(custom_config[i].key)
        IN  IF actual_field = None
            THEN MergeUnknownKeys(original_tool_name, custom_config, i + 1,
                                  SetField(acc, custom_config[i].key, custom_config[i].value))
            ELSE IF actual_field \in DOMAIN acc
            THEN Raise("duplicate_field",
                       <<original_tool_name, actual_field,
                         AliasKeysOf(custom_config, actual_field)>>)
            ELSE MergeUnknownKeys(original_tool_name, custom_config, i + 1,
                                  SetField(acc, actual_field, custom_config[i].value))

RECURSIVE LoadToolBlock(_, _, _, _)
\* lines 82-104: the keys of one tool's block, in order; set_fields is DOMAIN acc
LoadToolBlock(original_tool_name, custom_config, i, acc) ==
    IF i > Len(custom_config) THEN Ok(acc)
    ELSE
        LET actual_field == _find_actual_field(custom_config[i].key)
        IN  IF actual_field = None
            THEN LoadToolBlock(original_tool_name, custom_config, i + 1, acc)
            ELSE IF actual_field \in DOMAIN acc
            THEN Raise("duplicate_field",
                       <<original_tool_name, actual_field,
                         AliasKeysOf(custom_config, actual_field)>>)
            ELSE LoadToolBlock(original_tool_name, custom_config, i + 1,
                               SetField(acc, actual_field, custom_config[i].value))

RECURSIVE LoadFileFrom(_, _, _)
LoadFileFrom(config_from_file, i, file_configs) ==
    IF i > Len(config_from_file) THEN Ok(file_configs)
    ELSE
        LET block == LoadToolBlock(config_from_file[i].tool, config_from_file[i].fields,
                                   1, EmptyFields)
        IN  IF ~block.ok THEN block
            ELSE LoadFileFrom(config_from_file, i + 1,
                     Append(file_configs,
                            [tool |-> config_from_file[i].tool, cfg |-> block.value]))

\* config_from_file: the 'tools' mapping, a sequence of [tool, fields] in file
\* order, fields a sequence of [key, value].  The result is a sequence of
\* [tool, cfg] in the same order.
_load_config_from_file(config_from_file) == LoadFileFrom(config_from_file, 1, <<>>)

RECURSIVE WordRunEnd(_, _)
\* the last position of the longest run of \w characters of s that starts at i
\* (i - 1 when there is none)
WordRunEnd(s, i) ==
    IF i <= Len(s) /\ IsWordChar(Char(s, i)) THEN WordRunEnd(s, i + 1) ELSE i - 1

\* re.match(rf'tool\.(\w+)\.({a1}|{a2}|...)', arg): group(1), or None.  The
\* pattern is not anchored at the end of arg.
CliMatch(arg, aliases) ==
    LET n == WordRunEnd(arg, 6)
    IN  IF /\ StartsWith(arg, "tool.")
           /\ n >= 6
           /\ Char(arg, n + 1) = "."
           /\ \E a \in Range(aliases) : StartsWith(SubSeq(arg, n + 2, Len(arg)), a)
        THEN SubSeq(arg, 6, n)
        ELSE None

\* The display-name pattern is tried first (line 125: if / elif).
CliField(arg) ==
    IF CliMatch(arg, DisplayNameAliases) # None THEN DISPLAY_NAME_STRING
    ELSE IF CliMatch(arg, DescriptionAliases) # None THEN DESCRIPTION_STRING
    ELSE None

CliTool(arg) ==
    IF CliMatch(arg, DisplayNameAliases) # None THEN CliMatch(arg, DisplayNameAliases)
    ELSE CliMatch(arg, DescriptionAliases)

\* the tools an argument of the field names, in the order they first appear
RECURSIVE CliToolsOf(_, _, _, _)
CliToolsOf(cli_tool_overrides, field, i, acc) ==
    IF i > Len(cli_tool_overrides) THEN acc
    ELSE
        LET arg == cli_tool_overrides[i].arg
        IN  IF CliField(arg) = field /\ CliTool(arg) \notin Range(acc)
            THEN CliToolsOf(cli_tool_overrides, field, i + 1, Append(acc, CliTool(arg)))
            ELSE CliToolsOf(cli_tool_overrides, field, i + 1, acc)

\* the args collected for one tool and one field (lines 121-134)
CliArgsOf(cli_tool_overrides, field, tool) ==
    SelectSeq([i \in 1..Len(cli_tool_overrides) |-> cli_tool_overrides[i].arg],
              LAMBDA a : CliField(a) = field /\ CliTool(a) = tool)

RECURSIVE FirstDuplicate(_, _, _, _)
\* lines 141-156: the first tool of the field with more than one argument
FirstDuplicate(cli_tool_overrides, field, tools, i) ==
    IF i > Len(tools) THEN Ok(<<>>)
    ELSE IF Len(CliArgsOf(cli_tool_overrides, field, tools[i])) > 1
    THEN Raise("duplicate_field",
               <<tools[i], field, CliArgsOf(cli_tool_overrides, field, tools[i])>>)
    ELSE FirstDuplicate(cli_tool_overrides, field, tools, i + 1)

\* The flat keys loaded without the check of the duplicates.
DuplicatesNotChecked(cli_tool_overrides) == Ok(<<>>)

_check_cli_duplicate_field_aliases(cli_tool_overrides) ==
    LET dn == FirstDuplicate(cli_tool_overrides, DISPLAY_NAME_STRING,
                  CliToolsOf(cli_tool_overrides, DISPLAY_NAME_STRING, 1, <<>>), 1)
    IN  IF ~dn.ok THEN dn
        ELSE FirstDuplicate(cli_tool_overrides, DESCRIPTION_STRING,
                 CliToolsOf(cli_tool_overrides, DESCRIPTION_STRING, 1, <<>>), 1)

\* the position of the tool in a sequence of [tool, cfg], or 0
RECURSIVE PosOf(_, _, _)
PosOf(configs, tool, i) ==
    IF i > Len(configs) THEN 0
    ELSE IF configs[i].tool = tool THEN i
    ELSE PosOf(configs, tool, i + 1)

\* cli_configs[tool][field] = value, a new tool going to the end (lines 188-200)
PutConfig(configs, tool, field, value) ==
    LET p == PosOf(configs, tool, 1)
    IN  IF p = 0
        THEN Append(configs, [tool |-> tool, cfg |-> SetField(EmptyFields, field, value)])
        ELSE [configs EXCEPT ![p].cfg = SetField(configs[p].cfg, field, value)]

RECURSIVE LoadCliFrom(_, _, _)
LoadCliFrom(cli_tool_overrides, i, cli_configs) ==
    IF i > Len(cli_tool_overrides) THEN cli_configs
    ELSE
        LET arg == cli_tool_overrides[i].arg
        IN  IF CliField(arg) = None
            THEN LoadCliFrom(cli_tool_overrides, i + 1, cli_configs)
            ELSE LoadCliFrom(cli_tool_overrides, i + 1,
                     PutConfig(cli_configs, CliTool(arg), CliField(arg),
                               cli_tool_overrides[i].value))

\* cli_tool_overrides: a sequence of [arg, value] in dict order
_load_config_from_cli(cli_tool_overrides) ==
    IF Len(cli_tool_overrides) = 0 THEN Ok(<<>>)
    ELSE
        LET dup == _check_cli_duplicate_field_aliases(cli_tool_overrides)
        IN  IF ~dup.ok THEN dup
            ELSE Ok(LoadCliFrom(cli_tool_overrides, 1, <<>>))

(***************************************************************************)
(* Registries.  A registry maps tool identifiers to descriptors; the keys  *)
(* iterate in the order of RegistryOrder, the insertion order of the       *)
(* catalogue, which pop() and update() of an existing key keep.            *)
(***************************************************************************)
ToolInfo(display_name, description, http_methods) ==
    [display_name |-> display_name, description |-> description,
     http_methods |-> http_methods]

\* One property of an input schema: the name of the argument and its
\* description.
Property(name, description) == [name |-> name, description |-> description]

\* An input schema: its properties are <<entries>>, the entries of the
\* properties section in order, or <<>> when the schema has no properties
\* section.
InputSchema(properties) == [type |-> "object", properties |-> properties]

\* A descriptor with its input schema and its version bounds; a bound that
\* the descriptor does not give is None.
Described(info, input_schema, min_version, max_version) ==
    [display_name |-> info.display_name, description |-> info.description,
     http_methods |-> info.http_methods, input_schema |-> input_schema,
     min_version |-> min_version, max_version |-> max_version]

RegistryOrder == <<"ListIndexTool", "SearchIndexTool", "IndicesCreateTool">>

\* The catalogue the process starts with: every display name is the identifier.
Catalogue ==
    [k \in Range(RegistryOrder) |->
        CASE k = "ListIndexTool" ->
                 Described(ToolInfo(k, "List indices", "GET"),
                           InputSchema(<<>>), "1.0.0", "3.0.0")
          [] k = "SearchIndexTool" ->
                 Described(ToolInfo(k, "Search an index", "GET, POST"),
                           InputSchema(<<(<<Property("opensearch_cluster_name", "The cluster"),
                                           Property("query", "The search query")>>)>>),
                           "2.0.0", "3.0.0")
          [] k = "IndicesCreateTool" ->
                 Described(ToolInfo(k, "Create an index", "PUT"),
                           InputSchema(<<(<<Property("opensearch_cluster_name", "The cluster"),
                                           Property("index", "The name of the index")>>)>>),
                           "2.5", None)]

\* list(registry.keys()): the keys in insertion order
Keys(registry) == SelectSeq(RegistryOrder, LAMBDA k : k \in DOMAIN registry)

\* dict.pop(k, None) for every k of a set
Without(registry, removed) == [k \in (DOMAIN registry) \ removed |-> registry[k]]

RECURSIVE SkipUnknownTools(_, _, _)
\* An unknown identifier passed over, as _apply_validated_configs does.
SkipUnknownTools(config, i, available_tool_names) ==
    IF i > Len(config) THEN Ok(available_tool_names)
    ELSE SkipUnknownTools(config, i + 1, available_tool_names \ {config[i].tool})

RECURSIVE CheckToolsExist(_, _, _)
\* lines 220-223
CheckToolsExist(config, i, available_tool_names) ==
    IF i > Len(config) THEN Ok(available_tool_names)
    ELSE IF config[i].tool \notin available_tool_names
    THEN Raise("not_a_valid_tool_name", <<config[i].tool>>)
    ELSE CheckToolsExist(config, i + 1, available_tool_names \ {config[i].tool})

RECURSIVE CheckDuplicateNames(_, _, _)
\* lines 226-233
CheckDuplicateNames(config, i, available_tool_names) ==
    IF i > Len(config) THEN Ok(available_tool_names)
    ELSE
        LET custom_display_name == GetDisplayName(config[i].cfg)
        IN  IF ~Truthy(custom_display_name)
            THEN CheckDuplicateNames(config, i + 1, available_tool_names)
            ELSE IF custom_display_name \in available_tool_names
            THEN Raise("conflicts_with_another_tool", <<custom_display_name>>)
            ELSE CheckDuplicateNames(config, i + 1,
                                     available_tool_names \cup {custom_display_name})

RECURSIVE CheckNamePatterns(_, _)
\* lines 236-242
CheckNamePatterns(config, i) ==
    IF i > Len(config) THEN Ok(<<>>)
    ELSE
        LET custom_display_name == GetDisplayName(config[i].cfg)
        IN  IF Truthy(custom_display_name)
               /\ ~is_valid_display_name_pattern(custom_display_name)
            THEN Raise("pattern_violation", <<custom_display_name, config[i].tool>>)
            ELSE CheckNamePatterns(config, i + 1)

\* The names the validation starts from (line 217): the keys of the
\* process-wide registry.
AvailableToolNames(default_registry) == DOMAIN default_registry

\* config is checked against the process-wide registry, whatever registry the
\* caller gave to apply_custom_tool_config.
_validate_config(config, default_registry) ==
    LET exist == CheckToolsExist(config, 1, AvailableToolNames(default_registry))
    IN  IF ~exist.ok THEN exist
        ELSE
            LET dup == CheckDuplicateNames(config, 1, exist.value)
            IN  IF ~dup.ok THEN dup ELSE CheckNamePatterns(config, 1)

\* custom_registry[original_tool_name][field_name] = field_value
ApplyFields(info, cfg) ==
    [f \in (DOMAIN info) \cup (DOMAIN cfg) |-> IF f \in DOMAIN cfg THEN cfg[f] ELSE info[f]]

RECURSIVE ApplyFrom(_, _, _)
ApplyFrom(registry, configs, i) ==
    IF i > Len(configs) THEN registry
    ELSE IF configs[i].tool \notin DOMAIN registry
    THEN ApplyFrom(registry, configs, i + 1)
    ELSE ApplyFrom([registry EXCEPT ![configs[i].tool] = ApplyFields(@, configs[i].cfg)],
                   configs, i + 1)

_apply_validated_configs(registry, configs) == ApplyFrom(registry, configs, 1)

\* dict.update
Update(registry, other) ==
    [k \in (DOMAIN registry) \cup (DOMAIN other) |->
        IF k \in DOMAIN other THEN other[k] ELSE registry[k]]

(***************************************************************************)
(* The inputs of apply_custom_tool_config                                  *)
(***************************************************************************)
Field(key, value) == [key |-> key, value |-> value]
Block(tool, fields) == [tool |-> tool, fields |-> fields]

\* One tool's block of the structured file.  The display names proposed: a
\* new name, a name outside the pattern, the empty string, the identifier of
\* another tool; then two aliases of one field, an unrecognised key beside
\* an alias, and a description alone.
ListIndexBlocks ==
    {Block("ListIndexTool", fields) : fields \in
        {<<Field("display_name", "Lister")>>,
         <<Field("display_name", "Bad!")>>,
         <<Field("display_name", "")>>,
         <<Field("display_name", "SearchIndexTool")>>,
         <<Field("name", "Lister"), Field("displayName", "Other")>>,
         <<Field("description", "Listing"), Field("customDescription", "Short listing")>>,
         <<Field("customKey", "Value1"), Field("customName", "Lister")>>,
         <<Field("desc", "YAML description")>>}}

\* The blocks that stand beside a second tool's block.
PairedListIndexBlocks ==
    {b \in ListIndexBlocks : Len(b.fields) = 2 \/ b.fields[1].value \in {"Lister", "Bad!", "SearchIndexTool"}}

\* The same new name, that name in another letter case, a description alone.
SearchIndexBlocks ==
    {Block("SearchIndexTool", fields) : fields \in
        {<<Field("name", "Lister")>>,
         <<Field("name", "lister")>>,
         <<Field("description", "YAML description")>>}}

NonExistentBlocks == {Block("NonExistentTool", <<Field("display_name", "Lister")>>)}

\* An entry of an args block: the name of an argument and the text given
\* for it.
ArgText(arg, text) == [arg |-> arg, text |-> text]

\* A key of a block whose value is a mapping and no text: entries holds the
\* mapping, in order.
Mapping(key, entries) == [key |-> key, value |-> None, entries |-> entries]

\* A block with an args block alone, for an argument SearchIndexTool
\* declares.
ArgsBlocks ==
    {Block("SearchIndexTool",
           <<Mapping("args", <<ArgText("query", "Custom description for query")>>)>>)}

\* The 'tools' mapping of a file: one or two tools.
FileTools ==
    {<<b>> : b \in ListIndexBlocks \cup SearchIndexBlocks \cup NonExistentBlocks \cup ArgsBlocks}
    \cup {<<p[1], p[2]>> : p \in PairedListIndexBlocks \X (SearchIndexBlocks \cup NonExistentBlocks)}

File(path, loads, has_tools, tools) ==
    [path |-> path, loads |-> loads, has_tools |-> has_tools, tools |-> tools]

NoFile == File(FALSE, FALSE, FALSE, <<>>)

\* No path; a file that cannot be read; a document without 'tools'; an empty
\* 'tools' mapping.
FilesWithoutTools ==
    {NoFile, File(TRUE, FALSE, FALSE, <<>>),
     File(TRUE, TRUE, FALSE, <<>>), File(TRUE, TRUE, TRUE, <<>>)}

FilesWithTools == {File(TRUE, TRUE, TRUE, t) : t \in FileTools}

Arg(arg, value) == [arg |-> arg, value |-> value]

ListIndexArgs ==
    {Arg("tool.ListIndexTool.name", "Lister"),
     Arg("tool.ListIndexTool.name", "Bad!"),
     Arg("tool.ListIndexTool.name", ""),
     Arg("tool.ListIndexTool.display_name", "SearchIndexTool"),
     Arg("tool.ListIndexTool.description", "Listing"),
     Arg("tool.ListIndexTool.invalid_field", "Ignored")}

PairedListIndexArgs ==
    {a \in ListIndexArgs : a.value \in {"Lister", "Bad!", "SearchIndexTool", "Listing"}}

OtherArgs ==
    {Arg("tool.ListIndexTool.customName", "Other"),
     Arg("tool.ListIndexTool.desc", "Short listing"),
     Arg("tool.SearchIndexTool.displayName", "Lister"),
     Arg("tool.SearchIndexTool.displayName", "lister"),
     Arg("tool.SearchIndexTool.desc", "CLI description"),
     Arg("tool.SearchIndexTool.names", "Suffixed"),
     Arg("tool.NonExistentTool.display_name", "Lister"),
     Arg("invalid.format", "Wrong format entirely")}

PairedOtherArgs ==
    {a \in OtherArgs : a.arg # "invalid.format" /\ a.value # "Suffixed"}

\* cli_tool_overrides: no, one or two arguments.
CliOverrides ==
    {<<>>}
    \cup {<<a>> : a \in ListIndexArgs \cup OtherArgs}
    \cup {<<p[1], p[2]>> : p \in PairedListIndexArgs \X PairedOtherArgs}

\* The flat overrides given beside a file (which the file may shadow).
CliBesideFile ==
    {<<>>, <<Arg("tool.SearchIndexTool.displayName", "Lister")>>}

\* The two loaders on every input of the model, computed once.
FileConfigs == [t \in FileTools |-> _load_config_from_file(t)]
CliConfigs == [c \in CliOverrides |-> _load_config_from_cli(c)]

\* lines 282-290.  file: [path, loads, has_tools, tools]: whether a path is
\* given, whether open() and yaml.safe_load succeed, whether the document has
\* a 'tools' key, and its value.
ConfigFromFile(file) ==
    IF file.path /\ file.loads /\ file.has_tools THEN file.tools ELSE <<>>

\* The flat overrides used for the tools the file omits.
LoadOverridesCliFallback(file, cli_tool_overrides) ==
    LET from_file == FileConfigs[ConfigFromFile(file)]
        from_cli == CliConfigs[cli_tool_overrides]
    IN  IF Len(ConfigFromFile(file)) = 0 THEN from_cli
        ELSE IF ~from_file.ok THEN from_file
        ELSE IF ~from_cli.ok THEN from_cli
        ELSE Ok(from_file.value \o
                SelectSeq(from_cli.value,
                          LAMBDA e : PosOf(from_file.value, e.tool, 1) = 0))

\* The flat overrides ignored as soon as a path is given.
LoadOverridesPathOnly(file, cli_tool_overrides) ==
    IF Len(ConfigFromFile(file)) > 0 THEN FileConfigs[ConfigFromFile(file)]
    ELSE IF file.path THEN Ok(<<>>)
    ELSE CliConfigs[cli_tool_overrides]

\* lines 293-304: the normalised overrides of the source that is used
LoadOverrides(file, cli_tool_overrides) ==
    IF Len(ConfigFromFile(file)) > 0
    THEN FileConfigs[ConfigFromFile(file)]
    ELSE CliConfigs[cli_tool_overrides]

\* lines 295-303: a source that gives no override is not validated
Validated(configs, default_registry) ==
    IF ~configs.ok THEN configs
    ELSE IF Len(configs.value) = 0 THEN Ok(<<>>)
    ELSE _validate_config(configs.value, default_registry)

\* The call working on the argument itself.
ArgumentItself(registry) == [shared |-> TRUE, value |-> registry]

\* The call working on a copy of the tools as the catalogue declares them.
CopyOfCatalogue(registry) ==
    [shared |-> FALSE, value |-> [k \in DOMAIN registry |-> Catalogue[k]]]

\* line 279, copy.deepcopy(tool_registry): the registry the call works on is
\* a new object, it does not share the argument's entries.
WorkingCopy(registry) == [shared |-> FALSE, value |-> registry]

\* What the call leaves when it raised: [error, detail, custom_registry,
\* default_tool_registry, tool_registry], the last being the argument object
\* after the call.
Raised(valid, registry, default_registry) ==
    [error |-> valid.error, detail |-> valid.detail, custom_registry |-> None,
     default_tool_registry |-> default_registry, tool_registry |-> registry]

\* lines 307-309: the process-wide registry takes the entries of the
\* registry that is returned.
Return(custom, registry, shared, default_registry) ==
    [error |-> None, detail |-> <<>>, custom_registry |-> custom,
     default_tool_registry |-> Update(default_registry, custom),
     tool_registry |-> IF shared THEN custom ELSE registry]

\* The overrides written into the process-wide registry, valid or not.
WriteThrough(registry, working, configs, valid, default_registry) ==
    IF ~configs.ok THEN Raised(valid, registry, default_registry)
    ELSE IF ~valid.ok
    THEN Raised(valid, registry,
                Update(default_registry, _apply_validated_configs(registry, configs.value)))
    ELSE Return(_apply_validated_configs(working.value, configs.value), registry,
                working.shared, default_registry)

\* lines 293-309: an error is raised before anything is written
ValidateThenApply(registry, working, configs, valid, default_registry) ==
    IF ~valid.ok THEN Raised(valid, registry, default_registry)
    ELSE Return(_apply_validated_configs(working.value, configs.value), registry,
                working.shared, default_registry)

\* The overrides in effect, known
ApplyBeforeValidateLoaded(registry, configs, default_registry) ==
    WriteThrough(registry, WorkingCopy(registry), configs,
                 Validated(configs, default_registry), default_registry)

ApplyLoaded(registry, configs, default_registry) ==
    ValidateThenApply(registry, WorkingCopy(registry), configs,
                      Validated(configs, default_registry), default_registry)

\* The overrides written into the process-wide registry before they are
\* validated.
ApplyBeforeValidate(registry, file, cli_tool_overrides, default_registry) ==
    ApplyBeforeValidateLoaded(registry, LoadOverrides(file, cli_tool_overrides),
                              default_registry)

\* The call on the value of the caller's registry and of the process-wide
\* registry.
apply_custom_tool_config(registry, file, cli_tool_overrides, default_registry) ==
    ApplyLoaded(registry, LoadOverrides(file, cli_tool_overrides), default_registry)

(***************************************************************************)
(* tools/tool_filter.py                                                    *)
(***************************************************************************)
\* An optional value: <<>> is Python's None, <<v>> the value v.
Nothing == <<>>
Some(v) == <<v>>

\* os.getenv(name, default), the variable being None when it is unset
Getenv(value, default) == IF value = None THEN default ELSE value

\* The setting read whatever was published.
ReadEnvironment(resolved, env) == Lower(Getenv(env, "true")) = "true"

\* lines 48-64: the published setting, or the environment while none is published
get_allow_write_setting(resolved, env) ==
    IF resolved # Nothing THEN resolved[1]
    ELSE Lower(Getenv(env, "true")) = "true"

\* bool(allow_write) of an optional boolean: None and False are falsy
IsTrue(allow_write) == allow_write = Some(TRUE)

\* 'GET' not in http_methods removes the tool (lines 100-105); http_methods is
\* a string, so `in` is the substring test.
apply_write_filter(registry) ==
    Without(registry, {k \in DOMAIN registry : ~Contains(registry[k].http_methods, "GET")})

\* lines 162-172
core_tools ==
    <<"ListIndexTool", "IndexMappingTool", "SearchIndexTool", "GetShardsTool",
      "ClusterHealthTool", "CountTool", "ExplainTool", "MsearchTool",
      "GenericOpenSearchApiTool">>

\* lines 175-178: the display names of the core tools the registry holds
core_tools_display_name(registry) ==
    LET present == SelectSeq(core_tools, LAMBDA t : t \in DOMAIN registry)
    IN  [i \in 1..Len(present) |-> registry[present[i]].display_name]

\* The lookup that also resolves the lower-cased identifiers of the tools.
LookupWithIdentifiers(registry) ==
    LET keys == Keys(registry)
        names == {Lower(registry[k].display_name) : k \in DOMAIN registry}
        pos(n) == CHOOSE i \in 1..Len(keys) :
                      /\ Lower(registry[keys[i]].display_name) = n
                      /\ \A j \in (i + 1)..Len(keys) :
                             Lower(registry[keys[j]].display_name) # n
    IN  [n \in names \cup {Lower(k) : k \in DOMAIN registry} |->
             IF n \in names THEN keys[pos(n)]
             ELSE CHOOSE k \in DOMAIN registry : Lower(k) = n]

\* lines 147-149: lower-cased display name -> identifier; of two tools with
\* one lower-cased display name the later key wins.
DisplayNameLookup(registry) ==
    LET keys == Keys(registry)
        pos(n) == CHOOSE i \in 1..Len(keys) :
                      /\ Lower(registry[keys[i]].display_name) = n
                      /\ \A j \in (i + 1)..Len(keys) :
                             Lower(registry[keys[j]].display_name) # n
    IN  [n \in {Lower(registry[k].display_name) : k \in DOMAIN registry} |-> keys[pos(n)]]

RECURSIVE SplitFrom(_, _, _)
\* str.split(','), the piece being read kept in acc
SplitFrom(s, i, acc) ==
    IF i > Len(s) THEN <<acc>>
    ELSE IF Char(s, i) = "," THEN <<acc>> \o SplitFrom(s, i + 1, "")
    ELSE SplitFrom(s, i + 1, acc \o Char(s, i))

RECURSIVE Strip(_)
\* str.strip() of blanks
Strip(s) ==
    IF Len(s) > 0 /\ Char(s, 1) = " " THEN Strip(SubSeq(s, 2, Len(s)))
    ELSE IF Len(s) > 0 /\ Char(s, Len(s)) = " " THEN Strip(SubSeq(s, 1, Len(s) - 1))
    ELSE s

\* utils.parse_comma_separated: the stripped, non-empty pieces of the text
parse_comma_separated(text) ==
    LET pieces == SplitFrom(text, 1, "")
        stripped == [i \in 1..Len(pieces) |-> Strip(pieces[i])]
    IN  SelectSeq(stripped, LAMBDA p : p # "")

\* json.loads on the texts given as OPENSEARCH_TOOL_CATEGORIES: a mapping of
\* category to tool names, a text that is no JSON, a JSON array.
json_loads(text) ==
    CASE text = "{\"critical\": [\"SearchIndexTool\"]}" ->
             [kind |-> "dict", value |-> [c \in {"critical"} |-> <<"SearchIndexTool">>]]
      [] text = "[1]" -> [kind |-> "list", value |-> <<>>]
      [] OTHER -> [kind |-> "JSONDecodeError", value |-> <<>>]

RECURSIVE process_categories(_, _)
\* lines 108-116
process_categories(category_list, category_to_tools) ==
    IF Len(category_list) = 0 THEN <<>>
    ELSE (IF Head(category_list) \in DOMAIN category_to_tools
          THEN category_to_tools[Head(category_list)] ELSE <<>>)
         \o process_categories(Tail(category_list), category_to_tools)

\* The patterns of the model: word characters, then ".*" or nothing; a "("
\* that is never closed does not compile.
ReCompiles(regex) == "(" \notin CharsOf(regex)

\* re.match(regex, tool_name, re.IGNORECASE) for a pattern that compiles:
\* anchored at the start only
ReMatch(regex, tool_name) ==
    LET literal == IF Len(regex) >= 2 /\ SubSeq(regex, Len(regex) - 1, Len(regex)) = ".*"
                   THEN SubSeq(regex, 1, Len(regex) - 2) ELSE regex
    IN  StartsWith(Lower(tool_name), Lower(literal))

RECURSIVE process_regex_patterns(_, _)
\* lines 24-31; re.error is raised by the first re.match of a pattern that
\* does not compile, so not when tool_names is empty.
process_regex_patterns(regex_list, tool_names) ==
    IF Len(regex_list) = 0 THEN Ok(<<>>)
    ELSE IF Len(tool_names) > 0 /\ ~ReCompiles(Head(regex_list))
    THEN Raise("re.error", <<Head(regex_list)>>)
    ELSE
        LET rest == process_regex_patterns(Tail(regex_list), tool_names)
        IN  IF ~rest.ok THEN rest
            ELSE Ok(SelectSeq(tool_names, LAMBDA n : ReMatch(Head(regex_list), n))
                    \o rest.value)

RECURSIVE validate_tools(_, _, _)
\* utils.validate_tools: the lower-cased identifiers the names resolve to
\* through the display-name lookup; a name that does not resolve is an error
\* naming the list it came from.
validate_tools(tool_list, display_name, source) ==
    IF Len(tool_list) = 0 THEN Ok({})
    ELSE IF Lower(Head(tool_list)) \notin DOMAIN display_name
    THEN Raise("unresolved_name", <<source, Head(tool_list)>>)
    ELSE
        LET rest == validate_tools(Tail(tool_list), display_name, source)
        IN  IF ~rest.ok THEN rest
            ELSE Ok({Lower(display_name[Lower(Head(tool_list))])} \cup rest.value)

\* utils.load_yaml_config: the parsed mapping, or None when no path is given
\* or the file is missing or unreadable.  filter_path: [path, readable, content].
load_yaml_config(filter_path) ==
    IF filter_path.path /\ filter_path.readable THEN Some(filter_path.content)
    ELSE Nothing

\* text.extend(parse_comma_separated(text)) under `if text:`
Extended(list, text) == IF text # "" THEN list \o parse_comma_separated(text) ELSE list

\* tool_filters of the file, or the empty lists the call starts with
ToolFiltersOf(config) ==
    IF config # Nothing THEN config[1].tool_filters
    ELSE [enabled_tools |-> <<>>, disabled_tools |-> <<>>,
          enabled_categories |-> <<>>, disabled_categories |-> <<>>,
          enabled_tools_regex |-> <<>>, disabled_tools_regex |-> <<>>,
          settings |-> <<>>]

\* The built-in category left out of the enabled categories.
ListsWithoutCore(c, tool_filters) ==
    [enabled_tool_list |-> Extended(tool_filters.enabled_tools, c.enabled_tools),
     disabled_tool_list |-> Extended(tool_filters.disabled_tools, c.disabled_tools),
     enabled_category_list |->
         Extended(tool_filters.enabled_categories, c.enabled_categories),
     disabled_category_list |->
         Extended(tool_filters.disabled_categories, c.disabled_categories),
     enabled_tools_regex_list |->
         Extended(tool_filters.enabled_tools_regex, c.enabled_tools_regex),
     disabled_tools_regex_list |->
         Extended(tool_filters.disabled_tools_regex, c.disabled_tools_regex)]

\* lines 184-196 and 213-224: the lists the file and the criteria give
ListsOf(c, tool_filters) ==
    [enabled_tool_list |-> Extended(tool_filters.enabled_tools, c.enabled_tools),
     disabled_tool_list |-> Extended(tool_filters.disabled_tools, c.disabled_tools),
     enabled_category_list |->
         Extended(<<"core_tools">> \o tool_filters.enabled_categories,
                  c.enabled_categories),
     disabled_category_list |->
         Extended(tool_filters.disabled_categories, c.disabled_categories),
     enabled_tools_regex_list |->
         Extended(tool_filters.enabled_tools_regex, c.enabled_tools_regex),
     disabled_tools_regex_list |->
         Extended(tool_filters.disabled_tools_regex, c.disabled_tools_regex)]

CriteriaLists(c, config) == ListsOf(c, ToolFiltersOf(config))

\* settings.get('allow_write', True), settings a sequence of [key, value]
SettingsAllowWrite(found) ==
    IF Len(found) > 0 THEN Some(found[Len(found)].value) ELSE Some(TRUE)

\* lines 198-201: a non-empty settings mapping of the file replaces the
\* argument, by its allow_write entry or by True.
AllowWriteInEffect(c, config) ==
    IF config # Nothing /\ Len(config[1].tool_filters.settings) > 0
    THEN SettingsAllowWrite(SelectSeq(config[1].tool_filters.settings,
                                      LAMBDA e : e.key = "allow_write"))
    ELSE c.allow_write

\* The union of three validated lists, or the first error among them.
ValidatedUnion(a, b, d) ==
    IF ~a.ok THEN a ELSE IF ~b.ok THEN b ELSE IF ~d.ok THEN d
    ELSE Ok(a.value \cup b.value \cup d.value)

\* lines 262-264
KeepOnly(registry, all_enabled_tools) ==
    IF ~all_enabled_tools.ok THEN all_enabled_tools
    ELSE Ok(Without(registry, {k \in DOMAIN registry :
                                   Lower(k) \notin all_enabled_tools.value}))

\* lines 281-283
Remove(registry, all_disabled_tools) ==
    IF ~all_disabled_tools.ok THEN all_disabled_tools
    ELSE Ok(Without(registry, {k \in DOMAIN registry :
                                   Lower(k) \in all_disabled_tools.value}))

\* lines 248-264: Ok(registry) or the error of validate_tools
EnabledStep(registry, enabled_tool_list, from_categories, from_regex, display_name) ==
    IF Len(enabled_tool_list) = 0 /\ Len(from_categories) = 0 /\ Len(from_regex) = 0
    THEN Ok(registry)
    ELSE KeepOnly(registry,
             ValidatedUnion(
                 validate_tools(enabled_tool_list, display_name, "enabled_tools"),
                 validate_tools(from_categories, display_name, "enabled_categories"),
                 validate_tools(from_regex, display_name, "enabled_tools_regex")))

\* lines 267-283
DisabledStep(registry, disabled_tool_list, from_categories, from_regex, display_name) ==
    IF Len(disabled_tool_list) = 0 /\ Len(from_categories) = 0 /\ Len(from_regex) = 0
    THEN Ok(registry)
    ELSE Remove(registry,
             ValidatedUnion(
                 validate_tools(disabled_tool_list, display_name, "disabled_tools"),
                 validate_tools(from_categories, display_name, "disabled_categories"),
                 validate_tools(from_regex, display_name, "disabled_tools_regex")))

\* lines 179-181 and 204-210: the categories of the file and of the JSON text
\* over the built-in one.  parsed is json_loads of the text, of kind "unset"
\* when there is no text; only a mapping is merged.
CategoryToTools(registry, config, parsed) ==
    Update(Update([x \in {"core_tools"} |-> core_tools_display_name(registry)],
                  IF config # Nothing THEN config[1].tool_category
                  ELSE [x \in {} |-> <<>>]),
           IF parsed.kind = "dict" THEN parsed.value ELSE [x \in {} |-> <<>>])

ParsedCategories(c) ==
    IF c.tool_categories # "" THEN json_loads(c.tool_categories)
    ELSE [kind |-> "unset", value |-> <<>>]

\* line 239: the display names of the tools the write filter left
CurrentToolNames(registry, keys) ==
    [i \in 1..Len(keys) |-> registry[keys[i]].display_name]

\* lines 227-228
WriteStep(registry, allow_write) ==
    IF IsTrue(allow_write) THEN registry ELSE apply_write_filter(registry)

\* What the call leaves: the registry, filtered as far as the call came, and
\* the exception the handler of line 289 logged (None when there was none).
Left(registry, error, detail) ==
    [registry |-> registry, error |-> error, detail |-> detail]

\* lines 267-286, the enabled tools kept
AfterDisabled(enabled, disabled) ==
    IF ~disabled.ok THEN Left(enabled, disabled.error, disabled.detail)
    ELSE Left(disabled.value, None, <<>>)

\* lines 248-286, the names of the categories and of the patterns known
AfterEnabled(written, enabled, lists, disabled_from_categories, disabled_from_regex, display_name) ==
    IF ~enabled.ok THEN Left(written, enabled.error, enabled.detail)
    ELSE AfterDisabled(enabled.value,
             DisabledStep(enabled.value, lists.disabled_tool_list,
                          disabled_from_categories, disabled_from_regex, display_name))

\* lines 239-286
AfterRegex(written, lists, enabled_from_categories, disabled_from_categories, enabled_from_regex, disabled_from_regex, display_name) ==
    IF ~enabled_from_regex.ok
    THEN Left(written, enabled_from_regex.error, enabled_from_regex.detail)
    ELSE IF ~disabled_from_regex.ok
    THEN Left(written, disabled_from_regex.error, disabled_from_regex.detail)
    ELSE AfterEnabled(written,
             EnabledStep(written, lists.enabled_tool_list, enabled_from_categories,
                         enabled_from_regex.value, display_name),
             lists, disabled_from_categories, disabled_from_regex.value, display_name)

\* What the call leaves, with the names the patterns matched (lines 240-245)
\* as last assigned: none when the call did not come that far.
Matched(left, enabled_from_regex, disabled_from_regex) ==
    [registry |-> left.registry, error |-> left.error, detail |-> left.detail,
     enabled_tools_from_regex |->
         IF enabled_from_regex.ok THEN enabled_from_regex.value ELSE <<>>,
     disabled_tools_from_regex |->
         IF enabled_from_regex.ok /\ disabled_from_regex.ok
         THEN disabled_from_regex.value ELSE <<>>]

\* lines 240-286
FromRegex(written, lists, enabled_from_categories, disabled_from_categories, enabled_from_regex, disabled_from_regex, display_name) ==
    Matched(AfterRegex(written, lists, enabled_from_categories,
                       disabled_from_categories, enabled_from_regex,
                       disabled_from_regex, display_name),
            enabled_from_regex, disabled_from_regex)

\* lines 231-286
AfterWrite(written, current_tool_names, lists, category_to_tools, display_name) ==
    FromRegex(written, lists,
        process_categories(lists.enabled_category_list, category_to_tools),
        process_categories(lists.disabled_category_list, category_to_tools),
        process_regex_patterns(lists.enabled_tools_regex_list, current_tool_names),
        process_regex_patterns(lists.disabled_tools_regex_list, current_tool_names),
        display_name)

\* lines 227-286
FromWrite(written, lists, category_to_tools, display_name) ==
    AfterWrite(written, CurrentToolNames(written, Keys(written)), lists,
               category_to_tools, display_name)

\* The patterns matched against the names the registry had before the write
\* filter ran.
LoadedRegexFirst(c, registry, config, parsed) ==
    IF parsed.kind = "list"
    THEN Matched(Left(registry, "TypeError", <<c.tool_categories>>), Ok(<<>>), Ok(<<>>))
    ELSE AfterWrite(WriteStep(registry, AllowWriteInEffect(c, config)),
                    CurrentToolNames(registry, Keys(registry)),
                    CriteriaLists(c, config),
                    CategoryToTools(registry, config, parsed),
                    DisplayNameLookup(registry))

\* lines 147-286; a JSON text that is no mapping raises TypeError in
\* dict.update (line 206), which only JSONDecodeError is caught around.
Loaded(c, registry, config, parsed) ==
    IF parsed.kind = "list"
    THEN Matched(Left(registry, "TypeError", <<c.tool_categories>>), Ok(<<>>), Ok(<<>>))
    ELSE FromWrite(WriteStep(registry, AllowWriteInEffect(c, config)),
                   CriteriaLists(c, config),
                   CategoryToTools(registry, config, parsed),
                   DisplayNameLookup(registry))

\* lines 145-290, on the criteria c and the registry object given
process_tool_filter(c, registry) ==
    Loaded(c, registry, load_yaml_config(c.filter_path), ParsedCategories(c))

(***************************************************************************)
(* tools/generic_api_tool.py                                               *)
(***************************************************************************)
\* The names bound in the module's namespace: the imports of lines 4-11 and
\* the definitions of lines 13, 15 and 73.
ModuleNames ==
    {"json", "logging", "os", "Any", "Dict", "Optional", "urlencode",
     "baseToolArgs", "BaseModel", "Field", "logger",
     "GenericOpenSearchApiArgs", "generic_opensearch_api_tool"}

\* lines 98 and 106
valid_methods == <<"GET", "POST", "PUT", "DELETE", "HEAD", "PATCH">>
write_methods == <<"POST", "PUT", "DELETE", "PATCH">>

\* What the tool returns, and whether perform_request was called.
Reply(text, performed) == [text |-> text, performed |-> performed]

\* lines 161-164: the handler of every exception; a name that is not bound
\* raises NameError when the line that reads it runs.
NameErrorReply(method, path, name) ==
    Reply("Error calling OpenSearch API (" \o method \o " " \o path
              \o "): name '" \o name \o "' is not defined",
          FALSE)

\* lines 115-159, on a line that is reached
Request(method, upper, path) ==
    IF "initialize_client" \notin ModuleNames
    THEN NameErrorReply(method, path, "initialize_client")
    ELSE Reply("OpenSearch API Response (" \o upper \o " " \o path \o "):\n{}", TRUE)

\* lines 108-113, allow_write being what line 105 read
Gate(method, upper, path, allow_write) ==
    IF upper \in Range(write_methods) /\ ~allow_write
    THEN Reply("Error: Write operations are disabled. Method \"" \o upper
                   \o "\" is not allowed. Enable write operations by setting "
                   \o "OPENSEARCH_SETTINGS_ALLOW_WRITE=true or configuring "
                   \o "allow_write: true in your config file.",
               FALSE)
    ELSE IF ~StartsWith(path, "/")
    THEN Reply("Error: API path must start with \"/\"", FALSE)
    ELSE Request(method, upper, path)

\* lines 97-105
Checked(method, upper, path, resolved, env) ==
    IF upper \notin Range(valid_methods)
    THEN Reply("Error: Invalid HTTP method \"" \o method \o "\". Valid methods are: "
                   \o "GET, POST, PUT, DELETE, HEAD, PATCH",
               FALSE)
    ELSE IF "get_allow_write_setting" \notin ModuleNames
    THEN NameErrorReply(method, path, "get_allow_write_setting")
    ELSE Gate(method, upper, path, get_allow_write_setting(resolved, env))

\* lines 73-164: args.method and args.path, the published setting and the
\* environment variable the call may read
generic_opensearch_api_tool(method, path, resolved, env) ==
    Checked(method, Upper(method), path, resolved, env)

(***************************************************************************)
(* The inputs of process_tool_filter                                       *)
(***************************************************************************)
FilterFile(path, readable, content) ==
    [path |-> path, readable |-> readable, content |-> content]

ToolFilters(disabled_tools, disabled_categories, settings) ==
    [enabled_tools |-> <<>>, disabled_tools |-> disabled_tools,
     enabled_categories |-> <<>>, disabled_categories |-> disabled_categories,
     enabled_tools_regex |-> <<>>, disabled_tools_regex |-> <<>>,
     settings |-> settings]

NoCategories == [x \in {} |-> <<>>]

EmptyContent == [tool_category |-> NoCategories, tool_filters |-> ToolFilters(<<>>, <<>>, <<>>)]

NoFilterFile == FilterFile(FALSE, FALSE, EmptyContent)

\* A file that cannot be read; settings that forbid writing; settings without
\* allow_write; a category of the file that is disabled beside a disabled tool.
FilterFiles ==
    {FilterFile(TRUE, FALSE, EmptyContent),
     FilterFile(TRUE, TRUE,
         [tool_category |-> NoCategories,
          tool_filters |-> ToolFilters(<<>>, <<>>, <<Field("allow_write", FALSE)>>)]),
     FilterFile(TRUE, TRUE,
         [tool_category |-> NoCategories,
          tool_filters |-> ToolFilters(<<>>, <<>>, <<Field("verbose", FALSE)>>)]),
     FilterFile(TRUE, TRUE,
         [tool_category |-> [x \in {"listing"} |-> <<"ListIndexTool">>],
          tool_filters |-> ToolFilters(<<"SearchIndexTool">>, <<"listing">>, <<>>)])}

NoCriteria ==
    [enabled_tools |-> "", disabled_tools |-> "", tool_categories |-> "",
     enabled_categories |-> "", disabled_categories |-> "",
     enabled_tools_regex |-> "", disabled_tools_regex |-> "",
     allow_write |-> Some(TRUE), filter_path |-> NoFilterFile]

Criterion(name, text) == [name |-> name, text |-> text]

With(c, criterion) == [c EXCEPT ![criterion.name] = criterion.text]

CriticalCategory == Criterion("tool_categories", "{\"critical\": [\"SearchIndexTool\"]}")

\* Criteria that select tools to keep, or that come before the selection.
EnablingCriteria ==
    {Criterion("enabled_tools", "IndicesCreateTool"),
     Criterion("enabled_tools", "Lister"),
     Criterion("enabled_categories", "critical"),
     Criterion("enabled_tools_regex", "indices.*"),
     Criterion("enabled_tools_regex", "("),
     CriticalCategory,
     Criterion("tool_categories", "not json"),
     Criterion("tool_categories", "[1]")}

\* Criteria that select tools to remove.
DisablingCriteria ==
    {Criterion("disabled_tools", "SearchIndexTool"),
     Criterion("disabled_tools", "listindextool, SearchIndexTool"),
     Criterion("disabled_tools", "NoSuchTool"),
     Criterion("disabled_tools", "lister"),
     Criterion("disabled_tools", "ListIndexTool"),
     Criterion("disabled_tools_regex", "list.*"),
     Criterion("disabled_categories", "core_tools"),
     Criterion("disabled_categories", "critical"),
     Criterion("disabled_tools_regex", "search.*"),
     Criterion("disabled_tools_regex", "(")}

\* The disabling criteria that stand beside an enabling one.
PairedDisablingCriteria ==
    {d \in DisablingCriteria : d.text \in {"SearchIndexTool", "core_tools", "search.*"}}

PairedEnablingCriteria ==
    {e \in EnablingCriteria : e.text \in {"IndicesCreateTool", "indices.*", "(", "[1]"}}

AllowWriteArguments == {Nothing, Some(TRUE), Some(FALSE)}

\* No criterion under every allow_write; one criterion with writing allowed
\* and forbidden; a disabling beside an enabling criterion; the category of
\* the JSON text enabled or disabled; a file, which the server reads with no
\* other argument.
FilterCriteria ==
    {[NoCriteria EXCEPT !.allow_write = a] : a \in AllowWriteArguments}
    \cup {[With(NoCriteria, p[1]) EXCEPT !.allow_write = Some(p[2])] :
              p \in (EnablingCriteria \cup DisablingCriteria) \X BOOLEAN}
    \cup {With(With(NoCriteria, p[1]), p[2]) :
              p \in PairedDisablingCriteria \X PairedEnablingCriteria}
    \cup {With(With(NoCriteria, CriticalCategory), Criterion(n, "critical")) :
              n \in {"enabled_categories", "disabled_categories"}}
    \cup {[NoCriteria EXCEPT !.filter_path = p[1], !.allow_write = p[2]] :
              p \in FilterFiles \X {Nothing, Some(TRUE)}}

(***************************************************************************)
(* tools/utils.py: is_tool_compatible                                      *)
(***************************************************************************)
\* the value of a decimal digit
DigitValue(c) == (CHOOSE i \in 1..Len(Digits) : Char(Digits, i) = c) - 1

\* A version text: digits and dots, a digit first and last, no two dots
\* together, at most three numbers.
IsVersionText(s) ==
    /\ Len(s) > 0
    /\ \A i \in 1..Len(s) : Char(s, i) \in DigitSet \cup {"."}
    /\ Char(s, 1) # "." /\ Char(s, Len(s)) # "."
    /\ \A i \in 1..(Len(s) - 1) : ~(Char(s, i) = "." /\ Char(s, i + 1) = ".")
    /\ Cardinality({i \in 1..Len(s) : Char(s, i) = "."}) <= 2

RECURSIVE ParseNumbers(_, _, _, _)
\* the numbers of a version text, n being the number that is being read
ParseNumbers(s, i, n, acc) ==
    IF i > Len(s) THEN Append(acc, n)
    ELSE IF Char(s, i) = "." THEN ParseNumbers(s, i + 1, 0, Append(acc, n))
    ELSE ParseNumbers(s, i + 1, 10 * n + DigitValue(Char(s, i)), acc)

\* the minor and the patch number that a partial version leaves out are 0
PadVersion(numbers) ==
    [i \in 1..3 |-> IF i <= Len(numbers) THEN numbers[i] ELSE 0]

\* Version.parse with optional minor and patch: <<major, minor, patch>>
ParseVersion(s) == PadVersion(ParseNumbers(s, 1, 0, <<>>))

\* a < b for versions: a bound that is not inclusive.
VersionLess(a, b) ==
    \/ a[1] < b[1]
    \/ a[1] = b[1] /\ a[2] < b[2]
    \/ a[1] = b[1] /\ a[2] = b[2] /\ a[3] < b[3]

\* a <= b for versions, the major number first
VersionLeq(a, b) ==
    \/ a[1] < b[1]
    \/ a[1] = b[1] /\ a[2] < b[2]
    \/ a[1] = b[1] /\ a[2] = b[2] /\ a[3] <= b[3]

\* one bound of a tool, which a tool may leave out
WithinBound(version, bound, is_min) ==
    \/ bound = None
    \/ IF is_min THEN VersionLeq(ParseVersion(bound), ParseVersion(version))
       ELSE VersionLeq(ParseVersion(version), ParseVersion(bound))

\* is_tool_compatible(current_version, tool_info): current_version is None
\* or the text of a full version; a bound that is no version raises
\* ValueError.
is_tool_compatible(current_version, tool_info) ==
    IF current_version = None THEN Ok(TRUE)
    ELSE IF tool_info.min_version # None /\ ~IsVersionText(tool_info.min_version)
    THEN Raise("ValueError", <<tool_info.min_version>>)
    ELSE IF tool_info.max_version # None /\ ~IsVersionText(tool_info.max_version)
    THEN Raise("ValueError", <<tool_info.max_version>>)
    ELSE Ok(/\ WithinBound(current_version, tool_info.min_version, TRUE)
            /\ WithinBound(current_version, tool_info.max_version, FALSE))

(***************************************************************************)
(* tools/tool_filter.py: _resolve_allow_write_setting and get_tools        *)
(***************************************************************************)
\* os.getenv('OPENSEARCH_SETTINGS_ALLOW_WRITE', 'true').lower() == 'true'
EnvAllowsWrite(env) == Lower(Getenv(env, "true")) = "true"

\* lines 88-92: the allow_write of the settings, when the key is there
SettingsOrEnvironment(found, from_env) ==
    IF Len(found) > 0 THEN found[Len(found)].value ELSE from_env

\* lines 86-92, config being what load_yaml_config returned
ResolvedFrom(config, from_env) ==
    IF config = Nothing THEN from_env
    ELSE SettingsOrEnvironment(SelectSeq(config[1].tool_filters.settings,
                                         LAMBDA e : e.key = "allow_write"),
                               from_env)

\* The environment variable used whatever the file says.
ResolveFromEnvironmentOnly(config_file_path, exists, raises, env) ==
    EnvAllowsWrite(env)

\* lines 67-97.  exists is os.path.exists(config_file_path); raises tells
\* that loading the file raised, which the handler of line 94 logs.
_resolve_allow_write_setting(config_file_path, exists, raises, env) ==
    IF config_file_path.path /\ exists /\ ~raises
    THEN ResolvedFrom(load_yaml_config(config_file_path), EnvAllowsWrite(env))
    ELSE EnvAllowsWrite(env)

\* baseToolArgs.model_fields.keys()
base_fields == {"opensearch_cluster_name"}

\* The schema exposed as it is registered.
SchemaAsRegistered(input_schema) == input_schema

\* lines 355-360: the base fields popped from the properties, when the
\* schema has that section
WithoutBaseFields(input_schema) ==
    IF input_schema.properties = <<>> THEN input_schema
    ELSE [input_schema EXCEPT
              !.properties = <<SelectSeq(@[1], LAMBDA field : field.name \notin base_fields)>>]

\* the descriptor, its schema without the base fields
Exposed(info) == [info EXCEPT !.input_schema = WithoutBaseFields(@)]

\* enabled[tool_name] = tool_info
Enable(enabled, tool_name, tool_info) ==
    [n \in (DOMAIN enabled) \cup {tool_name} |->
        IF n = tool_name THEN tool_info ELSE enabled[n]]

\* What the loop of lines 344-362 leaves: the registry, whose schemas the
\* loop changes in place, the mapping it built and the error it raised.
Looped(registry, enabled, error, detail) ==
    [registry |-> registry, enabled |-> enabled, error |-> error, detail |-> detail]

RECURSIVE ExposeFrom(_, _, _, _, _)
RECURSIVE ExposeTool(_, _, _, _, _, _)
\* lines 349-362 for the tool keys[i], compatible being what line 350 got
ExposeTool(registry, keys, i, version, enabled, compatible) ==
    IF ~compatible.ok THEN Looped(registry, enabled, compatible.error, compatible.detail)
    ELSE IF ~compatible.value THEN ExposeFrom(registry, keys, i + 1, version, enabled)
    ELSE ExposeFrom([registry EXCEPT ![keys[i]] = Exposed(@)], keys, i + 1, version,
                    Enable(enabled, registry[keys[i]].display_name,
                           Exposed(registry[keys[i]])))

\* lines 344-364: the tools in the order of the registry
ExposeFrom(registry, keys, i, version, enabled) ==
    IF i > Len(keys) THEN Looped(registry, enabled, None, <<>>)
    ELSE ExposeTool(registry, keys, i, version, enabled,
                    is_tool_compatible(version, registry[keys[i]]))

\* lines 322-342: the criteria of the environment are given only when there
\* is no file path; with a path every other argument keeps its default.
CriteriaOf(config_file_path, env_config, env) ==
    IF config_file_path.path
    THEN [NoCriteria EXCEPT !.allow_write = Nothing, !.filter_path = config_file_path]
    ELSE [env_config EXCEPT !.allow_write = Some(EnvAllowsWrite(env)),
                            !.filter_path = NoFilterFile]

\* What get_tools leaves: the setting it published, the registry object it
\* was given, that registry as the filter left it, the mapping it returned
\* and the error it raised.
Got(resolved, registry, filtered, returned, error) ==
    [resolved |-> resolved, registry |-> registry, filtered |-> filtered,
     returned |-> returned, error |-> error]

\* lines 344-364
SingleMode(resolved, filtered, looped) ==
    Got(resolved, looped.registry, filtered, looped.enabled, looped.error)

\* lines 316-364, filtered being what process_tool_filter left
AfterFilter(resolved, filtered, version) ==
    SingleMode(resolved, filtered,
               ExposeFrom(filtered, Keys(filtered), 1, version, [n \in {} |-> <<>>]))

\* The filter and the loop applied in every mode.
FilterInEveryMode(tool_registry_given, mode, resolved, c, version) ==
    AfterFilter(resolved, process_tool_filter(c, tool_registry_given).registry, version)

\* lines 312-364, resolved being what lines 309-310 published
Moded(tool_registry_given, mode, resolved, c, version) ==
    IF mode = "multi"
    THEN Got(resolved, tool_registry_given, tool_registry_given, tool_registry_given, None)
    ELSE AfterFilter(resolved, process_tool_filter(c, tool_registry_given).registry, version)

\* get_tools(tool_registry, mode, config_file_path), lines 293-364.  exists is
\* os.path.exists of the path, env_config the criteria of the environment,
\* env OPENSEARCH_SETTINGS_ALLOW_WRITE, version what get_opensearch_version
\* returned.
get_tools(tool_registry_given, mode, config_file_path, exists, env_config, env, version) ==
    Moded(tool_registry_given, mode,
          _resolve_allow_write_setting(config_file_path, exists, FALSE, env),
          CriteriaOf(config_file_path, env_config, env), version)

(***************************************************************************)
(* opensearch/client.py: initialize_client_with_cluster                    *)
(***************************************************************************)
\* The authentication methods, in the order the function tries them.
AuthMethods == <<"no_auth", "iam_role", "basic", "aws_credentials">>

\* What the function returns or raises, and the methods it tried on the way.
Client(method, tried) == [client |-> method, error |-> None, tried |-> tried]
Failure(kind, tried) == [client |-> None, error |-> kind, tried |-> tried]

\* 4. the credentials of the boto3 session; every failure is caught and the
\* function ends with its RuntimeError.
AwsCredentialsAuth(in, tried) ==
    IF in.credentials = "raises" THEN Failure("RuntimeError", Append(tried, "aws_credentials"))
    ELSE IF in.aws_region = "" THEN Failure("RuntimeError", Append(tried, "aws_credentials"))
    ELSE IF in.credentials = "found" /\ "aws_credentials" \in in.connects
         THEN Client("aws_credentials", Append(tried, "aws_credentials"))
    ELSE Failure("RuntimeError", Append(tried, "aws_credentials"))

\* 3. basic authentication; OpenSearch(**client_kwargs) is called outside any
\* try block, so what it raises leaves the function.
BasicAuth(in, tried) ==
    IF in.opensearch_username # "" /\ in.opensearch_password # ""
    THEN IF "basic" \in in.connects THEN Client("basic", Append(tried, "basic"))
         ELSE Failure("Exception", Append(tried, "basic"))
    ELSE AwsCredentialsAuth(in, tried)

\* 2. the IAM role; a missing region, a refused assume_role and a failing
\* constructor are caught and logged.
IamAuth(in, tried) ==
    IF in.iam_arn # ""
    THEN IF in.aws_region # "" /\ in.assume_role /\ "iam_role" \in in.connects
         THEN Client("iam_role", Append(tried, "iam_role"))
         ELSE BasicAuth(in, Append(tried, "iam_role"))
    ELSE BasicAuth(in, tried)

\* 1. no authentication, when OPENSEARCH_NO_AUTH says true in any case.
NoAuth(in, tried) ==
    IF Lower(Getenv(in.no_auth, "")) = "true"
    THEN IF "no_auth" \in in.connects THEN Client("no_auth", Append(tried, "no_auth"))
         ELSE IamAuth(in, Append(tried, "no_auth"))
    ELSE IamAuth(in, tried)

initialize_client_with_cluster(in) ==
    IF in.opensearch_url = "" THEN Failure("ValueError", <<>>)
    ELSE NoAuth(in, <<>>)

\* Which calls of OpenSearch(**client_kwargs) return a client: all, none, or
\* all but the one of a single method.
Connecting ==
    {{"no_auth", "iam_role", "basic", "aws_credentials"}, {}}
        \cup {{"no_auth", "iam_role", "basic", "aws_credentials"} \ {method} :
                  method \in {"no_auth", "iam_role", "basic", "aws_credentials"}}

\* The user name and password: both, the name alone, neither.
Logins == {<<"test-user", "test-password">>, <<"test-user", "">>, <<"", "">>}

\* The connection settings of a cluster, the environment, and what the
\* collaborators (boto3, sts, the OpenSearch constructor) do when called.
ClientInputs ==
    {[opensearch_url |-> url, opensearch_username |-> login[1],
      opensearch_password |-> login[2], iam_arn |-> arn, aws_region |-> region,
      no_auth |-> no_auth, credentials |-> credentials, assume_role |-> assume_role,
      connects |-> connects] :
         url \in {"https://test-opensearch-domain.com"}, login \in Logins,
         arn \in {"", "arn:aws:iam::123456789012:role/test"},
         region \in {"", "us-west-2"}, no_auth \in {None, "True", "false"},
         credentials \in {"found", "none", "raises"}, assume_role \in BOOLEAN,
         connects \in Connecting}
    \cup
    {[opensearch_url |-> "", opensearch_username |-> "", opensearch_password |-> "",
      iam_arn |-> "", aws_region |-> "", no_auth |-> None, credentials |-> "none",
      assume_role |-> FALSE, connects |-> {}]}

(***************************************************************************)
(* The state machine                                                       *)
(***************************************************************************)
\* The registry a caller owns: the whole catalogue, or a part of it.
CallerRegistries == {Catalogue, Without(Catalogue, {"SearchIndexTool"})}

Init ==
    /\ default_tool_registry = Catalogue
    /\ tool_registry \in CallerRegistries
    /\ custom_registry = <<>>
    /\ outcome = [op |-> "init"]
    /\ _resolved_allow_write_setting = Nothing
    /\ env_allow_write = None
    /\ calls = 0

\* The registry object the caller passes: its own, the process-wide one, or
\* the one the last call returned.
Passed(src) ==
    IF src = "default_tool_registry" THEN default_tool_registry
    ELSE IF src = "custom_registry" THEN custom_registry[1]
    ELSE tool_registry

\* The step of a call that left r.  custom_registry holds the returned
\* registry, <<>> while no call has returned.  outcome keeps the arguments,
\* the two registries as they were when the call began, and the error raised.
Applies(src, file, cli_tool_overrides, passed, r) ==
    /\ default_tool_registry' = r.default_tool_registry
    /\ tool_registry' = IF src = "tool_registry" THEN r.tool_registry
                        ELSE tool_registry
    /\ custom_registry' = IF r.error = None THEN <<r.custom_registry>>
                          ELSE custom_registry
    /\ outcome' = [op |-> "apply_custom_tool_config", src |-> src, file |-> file,
                   cli_tool_overrides |-> cli_tool_overrides,
                   passed |-> passed,
                   default_before |-> default_tool_registry,
                   error |-> r.error, detail |-> r.detail]

\* apply_custom_tool_config(src, file, cli_tool_overrides)
ApplyCustomToolConfig(src, file, cli_tool_overrides) ==
    /\ calls < MaxCalls
    /\ calls' = calls + 1
    /\ Applies(src, file, cli_tool_overrides, Passed(src),
               apply_custom_tool_config(Passed(src), file, cli_tool_overrides,
                                        default_tool_registry))
    /\ UNCHANGED <<_resolved_allow_write_setting, env_allow_write>>

Sources == {"tool_registry", "default_tool_registry"}

\* A file with tools, alone or (a file of one tool) beside some flat
\* overrides; no file and any flat overrides; a file without tools beside some
\* flat overrides.
ApplyInputs ==
    (FilesWithTools \X {<<>>})
    \cup ({f \in FilesWithTools : Len(f.tools) = 1} \X CliBesideFile)
    \cup ({NoFile} \X CliOverrides)
    \cup (FilesWithoutTools \X CliBesideFile)

ApplyStep ==
    \E src \in Sources, in \in ApplyInputs : ApplyCustomToolConfig(src, in[1], in[2])

\* The returned registry resolved again, with no override: no file or a file
\* without tools, and an empty flat map.
ResolveAgainStep ==
    \E file \in FilesWithoutTools :
        /\ Len(custom_registry) = 1
        /\ ApplyCustomToolConfig("custom_registry", file, <<>>)

NextConfig == ApplyStep \/ ResolveAgainStep

SpecConfig == Init /\ [][NextConfig]_vars

\* The overrides that rename tools before the registry is filtered.
RenameInputs ==
    {<<NoFile, <<Arg("tool.ListIndexTool.name", "Lister")>>>>,
     <<NoFile, <<Arg("tool.ListIndexTool.name", "Lister"),
                 Arg("tool.SearchIndexTool.displayName", "lister")>>>>,
     <<NoFile, <<Arg("tool.ListIndexTool.display_name", "SearchIndexTool"),
                 Arg("tool.SearchIndexTool.desc", "CLI description")>>>>}

RenameStep ==
    \E src \in Sources, in \in RenameInputs : ApplyCustomToolConfig(src, in[1], in[2])

\* The registry object a filter call is given: the caller's own, or the one
\* the last apply_custom_tool_config returned.
Targets == {"tool_registry", "custom_registry"}

\* The registry object the target names
Target(target) ==
    IF target = "custom_registry" THEN custom_registry[1] ELSE tool_registry

\* The exceptions of the body of process_tool_filter, all subclasses of
\* Exception: TypeError, re.error and the error of validate_tools.
ExceptionClasses == {"TypeError", "re.error", "unresolved_name"}

\* lines 145 and 289-290: the body is one try block and its handler, which
\* logs, catches Exception; the error the caller sees, None when there is none.
Propagated(error) == IF error \in ExceptionClasses THEN None ELSE error

\* The step of a call that left r.  outcome keeps the criteria, the registry
\* as it was, the exception the call logged, the exception it raised to its
\* caller and the allow_write the criteria put in effect.
Filters(target, c, before, r) ==
    /\ tool_registry' = IF target = "tool_registry" THEN r.registry ELSE tool_registry
    /\ custom_registry' = IF target = "custom_registry" THEN <<r.registry>>
                          ELSE custom_registry
    /\ outcome' = [op |-> "process_tool_filter", target |-> target,
                   criteria |-> c, before |-> before,
                   error |-> r.error, detail |-> r.detail,
                   enabled_tools_from_regex |-> r.enabled_tools_from_regex,
                   disabled_tools_from_regex |-> r.disabled_tools_from_regex,
                   raised |-> Propagated(r.error),
                   allow_write |-> AllowWriteInEffect(c, load_yaml_config(c.filter_path))]

\* process_tool_filter(..., tool_registry=target)
ProcessToolFilter(target, c) ==
    /\ calls < MaxCalls
    /\ target = "custom_registry" => Len(custom_registry) = 1
    /\ calls' = calls + 1
    /\ Filters(target, c, Target(target), process_tool_filter(c, Target(target)))
    /\ UNCHANGED <<default_tool_registry, _resolved_allow_write_setting, env_allow_write>>

FilterStep ==
    \E target \in Targets, c \in FilterCriteria : ProcessToolFilter(target, c)

NextFilter == RenameStep \/ FilterStep

SpecFilter == Init /\ [][NextFilter]_vars

\* The methods and paths a caller gives to the generic tool.
Methods == {"GET", "get", "POST", "post", "Put", "DELETE", "patch", "HEAD", "FETCH"}
Paths == {"/test_index/_doc/1", "_cluster/health"}

\* OPENSEARCH_SETTINGS_ALLOW_WRITE: unset, or a text
EnvValues == {None, "true", "false", "TRUE", "False", "1"}

\* os.environ['OPENSEARCH_SETTINGS_ALLOW_WRITE'] = value, or its removal
Setenv(value) ==
    /\ calls < MaxCalls
    /\ calls' = calls + 1
    /\ env_allow_write' = value
    /\ outcome' = [op |-> "setenv", value |-> value]
    /\ UNCHANGED <<default_tool_registry, tool_registry, custom_registry,
                   _resolved_allow_write_setting>>

\* set_allow_write_setting(allow_write), lines 34-45
SetAllowWriteSetting(allow_write) ==
    /\ calls < MaxCalls
    /\ calls' = calls + 1
    /\ _resolved_allow_write_setting' = allow_write
    /\ outcome' = [op |-> "set_allow_write_setting", allow_write |-> allow_write]
    /\ UNCHANGED <<default_tool_registry, tool_registry, custom_registry, env_allow_write>>

\* The step of a call that replied
Replies(method, path, reply) ==
    outcome' = [op |-> "generic_opensearch_api_tool", method |-> method, path |-> path,
                text |-> reply.text, performed |-> reply.performed]

\* generic_opensearch_api_tool(GenericOpenSearchApiArgs(method, path))
GenericOpenSearchApiTool(method, path) ==
    /\ calls < MaxCalls
    /\ calls' = calls + 1
    /\ Replies(method, path,
               generic_opensearch_api_tool(method, path, _resolved_allow_write_setting,
                                           env_allow_write))
    /\ UNCHANGED <<default_tool_registry, tool_registry, custom_registry,
                   _resolved_allow_write_setting, env_allow_write>>

SetenvStep == \E value \in EnvValues : Setenv(value)

SetAllowWriteStep ==
    \E allow_write \in AllowWriteArguments : SetAllowWriteSetting(allow_write)

ToolStep == \E method \in Methods, path \in Paths : GenericOpenSearchApiTool(method, path)

NextTool == SetenvStep \/ SetAllowWriteStep \/ ToolStep

SpecTool == Init /\ [][NextTool]_vars

\* The file the server is started with, and whether os.path.exists finds
\* it: no path, a path to no file, a file that does not load, and files that
\* load, with and without allow_write in their settings.
\* Files that enable IndicesCreateTool, which only writes: without settings,
\* and with settings that do not say allow_write.
EnablingFiles ==
    {FilterFile(TRUE, TRUE,
         [tool_category |-> NoCategories,
          tool_filters |-> [ToolFilters(<<>>, <<>>, settings)
                                EXCEPT !.enabled_tools = <<"IndicesCreateTool">>]]) :
         settings \in {<<>>, <<Field("verbose", FALSE)>>}}

ServerFiles ==
    {<<NoFilterFile, FALSE>>,
     <<FilterFile(TRUE, FALSE, EmptyContent), FALSE>>,
     <<FilterFile(TRUE, FALSE, EmptyContent), TRUE>>,
     <<FilterFile(TRUE, TRUE,
           [tool_category |-> NoCategories,
            tool_filters |-> ToolFilters(<<>>, <<>>, <<Field("allow_write", TRUE)>>)]),
       TRUE>>}
    \cup {<<f, TRUE>> : f \in {g \in FilterFiles : g.readable} \cup EnablingFiles}

\* The criteria the environment variables give to the server.
EnvConfigs ==
    {NoCriteria,
     With(NoCriteria, Criterion("enabled_tools", "IndicesCreateTool")),
     With(NoCriteria, Criterion("disabled_tools", "SearchIndexTool")),
     With(NoCriteria, Criterion("enabled_tools_regex", "("))}

\* What get_opensearch_version returns: None, or the version of the cluster.
Versions == {None, "1.5.0", "2.5.0"}

Modes == {"single", "multi"}

\* The arguments and the environment of a call of get_tools: in mode
\* 'multi' and with a file path the criteria of the environment are not read.
ServerInputs ==
    {<<"multi", p, NoCriteria, None>> : p \in {q \in ServerFiles : q[1].readable}}
    \cup {<<"single", <<f, TRUE>>, NoCriteria, "2.5.0">> : f \in {g \in FilterFiles : g.readable}}
    \cup {<<"single", <<NoFilterFile, FALSE>>, NoCriteria, v>> : v \in Versions}
    \cup {<<"single", <<NoFilterFile, FALSE>>, e, "2.5.0">> : e \in EnvConfigs \ {NoCriteria}}

\* The tool descriptors of line 307 of config.py are the objects of the
\* returned registry, so a schema changed through the returned registry is
\* changed in the process-wide registry too.
SharedWith(registry, returned) ==
    [k \in DOMAIN registry |-> IF k \in DOMAIN returned THEN returned[k] ELSE registry[k]]

\* The step of a call of get_tools that left r.
Gets(target, mode, in, version, before, r) ==
    /\ _resolved_allow_write_setting' = Some(r.resolved)
    /\ tool_registry' = IF target = "tool_registry" THEN r.registry ELSE tool_registry
    /\ custom_registry' = IF target = "custom_registry" THEN <<r.registry>>
                          ELSE custom_registry
    /\ default_tool_registry' =
           IF target = "custom_registry" THEN SharedWith(default_tool_registry, r.registry)
           ELSE default_tool_registry
    /\ outcome' = [op |-> "get_tools", target |-> target, mode |-> mode,
                   config_file_path |-> in[2][1], exists |-> in[2][2],
                   env_config |-> in[3], env |-> env_allow_write,
                   version |-> version, before |-> before,
                   was_resolved |-> _resolved_allow_write_setting,
                   resolved |-> r.resolved, filtered |-> r.filtered,
                   returned |-> r.returned, error |-> r.error]

\* get_tools(target, mode, config_file_path)
GetTools(target, in) ==
    /\ calls < MaxCalls
    /\ target = "custom_registry" => Len(custom_registry) = 1
    /\ calls' = calls + 1
    /\ Gets(target, in[1], in, in[4], Target(target),
            get_tools(Target(target), in[1], in[2][1], in[2][2], in[3],
                      env_allow_write, in[4]))
    /\ UNCHANGED env_allow_write

\* get_allow_write_setting(), lines 48-64
GetAllowWriteSetting ==
    /\ calls < MaxServerCalls
    /\ calls' = calls + 1
    /\ outcome' = [op |-> "get_allow_write_setting",
                   result |-> get_allow_write_setting(_resolved_allow_write_setting,
                                                      env_allow_write)]
    /\ UNCHANGED <<default_tool_registry, tool_registry, custom_registry,
                   _resolved_allow_write_setting, env_allow_write>>

\* _resolve_allow_write_setting(config_file_path), load_yaml_config raising
\* or not for a file that exists and does not load
ResolveAllowWriteSetting(config_file_path, exists, raises) ==
    /\ calls < MaxCalls
    /\ raises => (exists /\ ~config_file_path.readable)
    /\ calls' = calls + 1
    /\ outcome' = [op |-> "_resolve_allow_write_setting",
                   config_file_path |-> config_file_path, exists |-> exists,
                   raises |-> raises, env |-> env_allow_write,
                   result |-> _resolve_allow_write_setting(config_file_path, exists,
                                                           raises, env_allow_write)]
    /\ UNCHANGED <<default_tool_registry, tool_registry, custom_registry,
                   _resolved_allow_write_setting, env_allow_write>>

\* The bounds of a tool: both, one, none; partial versions; no version.
BoundsOfTools ==
    {[min_version |-> b[1], max_version |-> b[2]] :
         b \in {<<"1.0.0", "3.0.0">>, <<"2.0.0", "3.0.0">>, <<"1.0.0", "2.0.0">>,
                <<"2.5", "3">>, <<"2.5", None>>, <<None, "3">>, <<None, None>>,
                <<"not_a_version", None>>, <<None, "not_a_version">>}}

\* The versions the evaluator is asked about.
ReferenceVersions ==
    {None, "0.0.1", "1.0.0", "1.5.0", "2.0.0", "2.1.0", "2.4.9", "2.5.0", "2.5.1",
     "2.15.0", "3.0.0", "3.0.1", "3.1.0", "99.0.0"}

\* is_tool_compatible(current_version, tool_info)
IsToolCompatible(current_version, tool_info) ==
    /\ calls < MaxCalls
    /\ calls' = calls + 1
    /\ outcome' = [op |-> "is_tool_compatible", current_version |-> current_version,
                   tool_info |-> tool_info,
                   result |-> is_tool_compatible(current_version, tool_info)]
    /\ UNCHANGED <<default_tool_registry, tool_registry, custom_registry,
                   _resolved_allow_write_setting, env_allow_write>>

GetToolsStep == \E target \in Targets, in \in ServerInputs : GetTools(target, in)

NextServer == RenameStep \/ GetToolsStep

SpecServer == Init /\ [][NextServer]_vars

\* The server started on its own registry, with the files that say or do not
\* say allow_write.
StartInputs ==
    {<<mode, p, NoCriteria, None>> :
         mode \in Modes, p \in {q \in ServerFiles : q[1].readable \/ ~q[1].path}}

StartStep == \E in \in StartInputs : GetTools("tool_registry", in)

ReadStep == GetAllowWriteSetting

ResolveStep ==
    \E p \in ServerFiles, raises \in BOOLEAN : ResolveAllowWriteSetting(p[1], p[2], raises)

\* A read and a write through the generic tool.
InvokeStep ==
    \E method \in {"GET", "PUT"} : GenericOpenSearchApiTool(method, "/test_index/_doc/1")

NextGate == StartStep \/ SetenvStep \/ ReadStep \/ ResolveStep \/ InvokeStep

SpecGate == Init /\ [][NextGate]_vars

CompatibleStep ==
    \E v \in ReferenceVersions, t \in BoundsOfTools : IsToolCompatible(v, t)

NextVersion == CompatibleStep

SpecVersion == Init /\ [][NextVersion]_vars

InitializeClientWithCluster(in) ==
    /\ calls < MaxClientCalls
    /\ calls' = calls + 1
    /\ outcome' = [op |-> "initialize_client_with_cluster", in |-> in,
                   result |-> initialize_client_with_cluster(in)]
    /\ UNCHANGED <<default_tool_registry, tool_registry, custom_registry,
                   _resolved_allow_write_setting, env_allow_write>>

InitializeStep == \E in \in ClientInputs : InitializeClientWithCluster(in)

NextClient == InitializeStep

SpecClient == Init /\ [][NextClient]_vars

(***************************************************************************)
(* Properties of apply_custom_tool_config                                  *)
(***************************************************************************)
Applied == outcome.op = "apply_custom_tool_config"

Returned == Applied /\ outcome.error = None

\* the normalised override set of the source the last call used
InEffect == LoadOverrides(outcome.file, outcome.cli_tool_overrides)

\* the entries of an override set that propose a display name
Proposing(configs) ==
    {i \in 1..Len(configs) : DISPLAY_NAME_STRING \in DOMAIN configs[i].cfg}

FollowsPattern(registry) ==
    \A k \in DOMAIN registry : is_valid_display_name_pattern(registry[k].display_name)

UniqueIgnoringCase(registry) ==
    \A a, b \in DOMAIN registry :
        a # b => Lower(registry[a].display_name) # Lower(registry[b].display_name)

\* C2: when the call returns on a registry whose display names all match
\* ^[A-Za-z0-9_-]+$, every display name of the returned registry matches it,
\* and an override set that proposes a display name outside the pattern makes
\* the call fail (read here as: with any error).
C2_DisplayNamesFollowPattern ==
    (Applied /\ FollowsPattern(outcome.passed)) =>
        /\ outcome.error = None => FollowsPattern(custom_registry[1])
        /\ (/\ InEffect.ok
            /\ \E i \in Proposing(InEffect.value) :
                   ~is_valid_display_name_pattern(InEffect.value[i].cfg.display_name))
           => outcome.error # None

\* C3: after any sequence of successful calls no two tools of the returned
\* registry, nor of the process-wide registry, have display names that are
\* equal when letter case is ignored.
C3_DisplayNamesUniqueIgnoringCase ==
    /\ UniqueIgnoringCase(default_tool_registry)
    /\ Len(custom_registry) = 1 => UniqueIgnoringCase(custom_registry[1])

\* r is what the last step left: its error, the registry it returned and the
\* registries as they are now.
SameOutcome(r) ==
    /\ r.error = outcome.error
    /\ r.detail = outcome.detail
    /\ r.error = None => custom_registry = <<r.custom_registry>>
    /\ outcome.src = "tool_registry" => tool_registry = r.tool_registry
    /\ default_tool_registry = r.default_tool_registry

\* C4: when the file yields a non-empty tools mapping, the returned registry
\* or the error, and the registries the call leaves, are the same for every
\* value of the flat overrides.
C4_FileShadowsCli ==
    (Applied /\ Len(ConfigFromFile(outcome.file)) > 0) =>
        \A cli_tool_overrides \in CliOverrides :
            SameOutcome(apply_custom_tool_config(outcome.passed, outcome.file,
                            cli_tool_overrides, outcome.default_before))

\* alone returns another registry than the last call did
ReturnsAnother(alone) ==
    alone.error = None /\ alone.custom_registry # custom_registry[1]

\* A call with a file of tools and flat overrides that, without the file,
\* would have given another registry.
C4_Witness ==
    /\ Returned
    /\ Len(ConfigFromFile(outcome.file)) > 0
    /\ Len(outcome.cli_tool_overrides) > 0
    /\ custom_registry[1] # outcome.passed
    /\ ReturnsAnother(apply_custom_tool_config(outcome.passed, NoFile,
                          outcome.cli_tool_overrides, outcome.default_before))

\* C5: a call that fails with a configuration error leaves the caller's
\* registry, the process-wide registry and the registry returned before as
\* they were.
C5_ErrorLeavesRegistries ==
    [][(outcome'.op = "apply_custom_tool_config" /\ outcome'.error # None) =>
           /\ tool_registry' = tool_registry
           /\ default_tool_registry' = default_tool_registry
           /\ custom_registry' = custom_registry]_vars

\* A failed call after a call that had changed the process-wide registry.
C5_Witness ==
    /\ Applied
    /\ outcome.error \in {"duplicate_field", "not_a_valid_tool_name",
                          "conflicts_with_another_tool", "pattern_violation"}
    /\ outcome.default_before # Catalogue
    /\ default_tool_registry = outcome.default_before

\* the tools of an override set whose display name is being replaced
Renamed(configs) == {configs[i].tool : i \in Proposing(configs)}

\* A proposed display name is the display name of a tool that is not being
\* renamed, or the name proposed for another tool of the set.
Collides(configs, registry) ==
    \E i \in Proposing(configs) :
        \/ \E t \in (DOMAIN registry) \ Renamed(configs) :
               registry[t].display_name = configs[i].cfg.display_name
        \/ \E j \in Proposing(configs) \ {i} :
               configs[j].cfg.display_name = configs[i].cfg.display_name

\* C6: an override set in which a proposed display name equals the current
\* display name of a tool that is not being renamed, or the name proposed for
\* another tool of the set, is rejected (read here as: with any error).
C6_CollisionRejected ==
    (Applied /\ InEffect.ok /\ Collides(InEffect.value, outcome.passed)) =>
        outcome.error # None

\* The identifiers the override set in effect refers to, as written.
Referenced ==
    IF Len(ConfigFromFile(outcome.file)) > 0
    THEN {outcome.file.tools[i].tool : i \in 1..Len(outcome.file.tools)}
    ELSE {CliTool(outcome.cli_tool_overrides[i].arg) :
              i \in {j \in 1..Len(outcome.cli_tool_overrides) :
                         CliField(outcome.cli_tool_overrides[j].arg) # None}}

\* C7, as stated: an override set that refers to an identifier absent from
\* the registry given to the call makes the call fail with the error "not a
\* valid tool name".
C7_AbsentFromGivenRegistry ==
    (Applied /\ Referenced \ DOMAIN outcome.passed # {}) =>
        outcome.error = "not_a_valid_tool_name"

\* C7: an override set that refers to an identifier absent from the
\* process-wide registry makes the call fail; when the set has no duplicate
\* alias the error is "not a valid tool name" and names such an identifier.
\* A set whose identifiers are all in the process-wide registry never fails
\* with that error, whatever the registry given to the call holds.
C7_AbsentFromDefaultRegistry ==
    /\ (Applied /\ Referenced \ DOMAIN outcome.default_before # {}) =>
           /\ outcome.error # None
           /\ InEffect.ok =>
                  /\ outcome.error = "not_a_valid_tool_name"
                  /\ outcome.detail[1] \in Referenced \ DOMAIN outcome.default_before
    /\ (Applied /\ Referenced \subseteq DOMAIN outcome.default_before) =>
           outcome.error # "not_a_valid_tool_name"

\* An unknown identifier beside a display name outside the pattern.
C7_Witness ==
    /\ Applied
    /\ outcome.error = "not_a_valid_tool_name"
    /\ outcome.detail = <<"NonExistentTool">>
    /\ InEffect.ok
    /\ \E i \in Proposing(InEffect.value) :
           ~is_valid_display_name_pattern(InEffect.value[i].cfg.display_name)

\* C8, as stated: the call leaves the registry object it was given as it
\* was, whichever object that is.
C8_GivenRegistryUnmodified ==
    Applied => Passed(outcome.src) = outcome.passed

\* C8: the call leaves the caller's own registry as it was, and returns a
\* registry the overrides were applied to; the process-wide registry, when it
\* is the object given, holds the returned entries after a successful call.
C8_OwnRegistryUnmodified ==
    /\ (Applied /\ outcome.src = "tool_registry") => tool_registry = outcome.passed
    /\ (Returned /\ outcome.src = "default_tool_registry") =>
           default_tool_registry = custom_registry[1]

\* A call on the caller's own registry that returned a changed registry.
C8_Witness ==
    /\ Returned
    /\ outcome.src = "tool_registry"
    /\ custom_registry[1] # tool_registry
    /\ tool_registry = outcome.passed

\* the display name and the description of every tool
NamesAndDescriptions(registry) ==
    [k \in DOMAIN registry |->
        [display_name |-> registry[k].display_name,
         description |-> registry[k].description]]

\* C19: a call with no override (no file or a file without tools, and an
\* empty flat map) on the registry a successful call returned succeeds and
\* returns a registry of the same tools, each with the display name and the
\* description it had.
C19_ResolvingAgainKeepsNames ==
    (/\ Applied
     /\ outcome.src = "custom_registry"
     /\ outcome.file \in FilesWithoutTools
     /\ outcome.cli_tool_overrides = <<>>) =>
        /\ outcome.error = None
        /\ NamesAndDescriptions(custom_registry[1]) = NamesAndDescriptions(outcome.passed)

\* The registry of a call that renamed ListIndexTool, resolved again with a
\* file without tools.
C19_Witness ==
    /\ Returned
    /\ outcome.src = "custom_registry"
    /\ outcome.file.path
    /\ outcome.cli_tool_overrides = <<>>
    /\ outcome.passed["ListIndexTool"].display_name = "Lister"
    /\ custom_registry[1]["ListIndexTool"].display_name = "Lister"

\* the alias keys of a canonical field
Aliases(field) ==
    IF field = DISPLAY_NAME_STRING THEN Range(DisplayNameAliases)
    ELSE Range(DescriptionAliases)

CanonicalFields == {DISPLAY_NAME_STRING, DESCRIPTION_STRING}

\* the keys of one tool's block of the file that are aliases of the field
CollidingKeys(block, field) ==
    {block.fields[i].key : i \in {j \in 1..Len(block.fields) :
                                      block.fields[j].key \in Aliases(field)}}

\* the flat keys tool.<tool>.<alias> that are given, for the aliases of the field
CollidingArgs(cli_tool_overrides, tool, field) ==
    {cli_tool_overrides[i].arg : i \in {j \in 1..Len(cli_tool_overrides) :
         \E a \in Aliases(field) :
             cli_tool_overrides[j].arg = "tool." \o tool \o "." \o a}}

\* the tools the flat keys of the model name
NamedTools == {"ListIndexTool", "SearchIndexTool", "IndicesCreateTool", "NonExistentTool"}

\* the call failed with the duplicate-field error for the tool and the
\* field, and the error lists the keys
DuplicateReported(tool, field, keys) ==
    /\ outcome.error = "duplicate_field"
    /\ outcome.detail[1] = tool
    /\ outcome.detail[2] = field
    /\ keys \subseteq Range(outcome.detail[3])

FileInUse == Applied /\ Len(ConfigFromFile(outcome.file)) > 0

\* the keys of a block that are no accepted alias
UnrecognisedKeys(block) ==
    {block.fields[i].key : i \in {j \in 1..Len(block.fields) :
         block.fields[j].key \notin Aliases(DISPLAY_NAME_STRING) \cup Aliases(DESCRIPTION_STRING)}}

\* the value the block gives the canonical field through one of its aliases
GivenBy(block, field) ==
    {block.fields[i].value : i \in {j \in 1..Len(block.fields) :
                                        block.fields[j].key \in Aliases(field)}}

\* no block gives a canonical field twice
NoCollision(tools) ==
    \A b \in Range(tools), f \in CanonicalFields : Cardinality(CollidingKeys(b, f)) <= 1

\* the normalised overrides hold, tool by tool, the canonical fields the
\* recognised keys give and nothing else
HoldsRecognisedOnly(tools, configs) ==
    /\ Len(configs) = Len(tools)
    /\ \A i \in 1..Len(tools) :
           /\ configs[i].tool = tools[i].tool
           /\ DOMAIN configs[i].cfg = {f \in CanonicalFields : GivenBy(tools[i], f) # {}}
           /\ \A f \in DOMAIN configs[i].cfg : GivenBy(tools[i], f) = {configs[i].cfg[f]}

\* the returned tool has the fields it had, with the display name and the
\* description the recognised keys of its block give, or those it had
ResolvedFromRecognised(tools, before, after) ==
    /\ DOMAIN after = DOMAIN before
    /\ \A k \in DOMAIN after :
           /\ DOMAIN after[k] = DOMAIN before[k]
           /\ \A f \in DOMAIN after[k] :
                  IF f \in CanonicalFields
                          /\ \E b \in Range(tools) : b.tool = k /\ GivenBy(b, f) # {}
                  THEN \E b \in Range(tools) : b.tool = k /\ GivenBy(b, f) = {after[k][f]}
                  ELSE after[k][f] = before[k][f]

FlatInUse == Applied /\ Len(ConfigFromFile(outcome.file)) = 0

\* arg is exactly tool.<tool>.<alias>, for an accepted alias of the field
ExactKey(arg, tool, field) ==
    \E a \in Aliases(field) : arg = "tool." \o tool \o "." \o a

\* the values the exact keys of the map give the field of the tool
GivenByExactKeys(cli_tool_overrides, tool, field) ==
    {cli_tool_overrides[i].value : i \in {j \in 1..Len(cli_tool_overrides) :
         ExactKey(cli_tool_overrides[j].arg, tool, field)}}

\* C22: a flat key has an effect only if it is exactly tool.<Identifier>.<alias>
\* for an accepted alias: every entry of the overrides loaded from the flat
\* keys, and every field in which the returned registry differs from the
\* given one, is given by such a key.
C22_OnlyExactKeysTakeEffect ==
    FlatInUse =>
        /\ InEffect.ok =>
               \A i \in 1..Len(InEffect.value) : \A f \in DOMAIN InEffect.value[i].cfg :
                   InEffect.value[i].cfg[f] \in
                       GivenByExactKeys(outcome.cli_tool_overrides, InEffect.value[i].tool, f)
        /\ outcome.error = None =>
               \A k \in DOMAIN custom_registry[1] :
                   /\ DOMAIN custom_registry[1][k] = DOMAIN outcome.passed[k]
                   /\ \A f \in DOMAIN custom_registry[1][k] :
                          \/ custom_registry[1][k][f] = outcome.passed[k][f]
                          \/ /\ f \in CanonicalFields
                             /\ custom_registry[1][k][f] \in
                                    GivenByExactKeys(outcome.cli_tool_overrides, k, f)

\* the arguments the input schema declares
PropertiesOf(input_schema) ==
    IF input_schema.properties = <<>> THEN {}
    ELSE {property.name : property \in Range(input_schema.properties[1])}

\* the descriptions the input schema holds for the argument
DescriptionsOf(input_schema, arg) ==
    IF input_schema.properties = <<>> THEN {}
    ELSE {property.description :
              property \in {q \in Range(input_schema.properties[1]) : q.name = arg}}

\* the args blocks of a tool's block of the file
ArgsOf(block) ==
    {block.fields[i].entries : i \in {j \in 1..Len(block.fields) : block.fields[j].key = "args"}}

\* C23: after a call that returned, for every entry of an args block of the
\* file that names an argument the tool's input schema declares, the input
\* schema of the tool in the returned registry holds the text of the entry
\* as the description of that argument, and the tool's display name, its
\* description and its other arguments are as they were.
C23_ArgsDescriptionSet ==
    (FileInUse /\ Returned) =>
        \A b \in Range(ConfigFromFile(outcome.file)) : \A args \in ArgsOf(b) :
            \A e \in Range(args) :
                (/\ b.tool \in DOMAIN outcome.passed
                 /\ e.arg \in PropertiesOf(outcome.passed[b.tool].input_schema)) =>
                    /\ DescriptionsOf(custom_registry[1][b.tool].input_schema, e.arg) = {e.text}
                    /\ custom_registry[1][b.tool].display_name =
                           outcome.passed[b.tool].display_name
                    /\ custom_registry[1][b.tool].description =
                           outcome.passed[b.tool].description
                    /\ \A a \in PropertiesOf(outcome.passed[b.tool].input_schema) \ {e.arg} :
                           DescriptionsOf(custom_registry[1][b.tool].input_schema, a) =
                               DescriptionsOf(outcome.passed[b.tool].input_schema, a)

Initialized == outcome.op = "initialize_client_with_cluster" /\ outcome.in.opensearch_url # ""

\* The method is one the inputs ask for.
AuthApplies(in, method) ==
    CASE method = "no_auth" -> Lower(Getenv(in.no_auth, "")) = "true"
      [] method = "iam_role" -> in.iam_arn # ""
      [] method = "basic" -> in.opensearch_username # "" /\ in.opensearch_password # ""
      [] method = "aws_credentials" -> TRUE

\* The method, once tried, builds a client.
AuthSucceeds(in, method) ==
    CASE method = "no_auth" -> "no_auth" \in in.connects
      [] method = "iam_role" ->
             in.aws_region # "" /\ in.assume_role /\ "iam_role" \in in.connects
      [] method = "basic" -> "basic" \in in.connects
      [] method = "aws_credentials" ->
             /\ in.credentials = "found"
             /\ in.aws_region # ""
             /\ "aws_credentials" \in in.connects

\* The positions, in the fixed order, of the methods that apply and succeed.
Yielding(in) ==
    {i \in DOMAIN AuthMethods :
         AuthApplies(in, AuthMethods[i]) /\ AuthSucceeds(in, AuthMethods[i])}

FirstYielding(in) == CHOOSE i \in Yielding(in) : \A j \in Yielding(in) : i <= j

\* C25: the methods are tried in the order no-auth, IAM role, basic, AWS
\* session credentials; the client of the first one that applies and succeeds
\* is returned, a failing method falls through to the next, and RuntimeError
\* is raised when no method yields a client.
C25_FirstYieldingMethodWins ==
    Initialized =>
        IF Yielding(outcome.in) = {}
        THEN outcome.result.error = "RuntimeError"
        ELSE /\ outcome.result.error = None
             /\ outcome.result.client = AuthMethods[FirstYielding(outcome.in)]

(***************************************************************************)
(* Properties of process_tool_filter                                       *)
(***************************************************************************)
Filtered == outcome.op = "process_tool_filter"

\* every tool of the registry declares GET
AllDeclareGet(registry) ==
    \A k \in DOMAIN registry : Contains(registry[k].http_methods, "GET")

\* C9: after process_tool_filter has run with allow_write false, the registry
\* holds no tool whose methods lack GET, whatever the other criteria are.
C9_WriteGateRemoves ==
    (Filtered /\ outcome.allow_write = Some(FALSE)) =>
        AllDeclareGet(Target(outcome.target))

\* The display name is selected by a disabled criterion: an explicit name or
\* a member of a disabled category, letter case ignored, or a disabled
\* pattern that matches it.
SelectedByDisabled(display, lists, category_to_tools) ==
    \/ \E n \in Range(lists.disabled_tool_list)
               \cup Range(process_categories(lists.disabled_category_list,
                                             category_to_tools)) :
           Lower(n) = Lower(display)
    \/ \E regex \in Range(lists.disabled_tools_regex_list) :
           ReCompiles(regex) /\ ReMatch(regex, display)

\* the tools of the registry that the disabled criteria select
DisabledTools(registry, lists, category_to_tools) ==
    {k \in DOMAIN registry :
         SelectedByDisabled(registry[k].display_name, lists, category_to_tools)}

\* C10: a tool whose display name a disabled criterion selects is absent from
\* the registry once process_tool_filter has completed, whatever the other
\* criteria are (read here for the calls in which every name resolved).
C10_DisabledWins ==
    (Filtered /\ outcome.error # "unresolved_name") =>
        DisabledTools(outcome.before,
            CriteriaLists(outcome.criteria, load_yaml_config(outcome.criteria.filter_path)),
            CategoryToTools(outcome.before,
                            load_yaml_config(outcome.criteria.filter_path),
                            ParsedCategories(outcome.criteria)))
        \cap DOMAIN Target(outcome.target) = {}

\* No name, category or pattern is configured, by argument or by file, and
\* writing is allowed.
NothingConfigured ==
    /\ Filtered
    /\ outcome.allow_write = Some(TRUE)
    /\ \A n \in {"enabled_tools", "disabled_tools", "tool_categories",
                  "enabled_categories", "disabled_categories",
                  "enabled_tools_regex", "disabled_tools_regex"} :
           outcome.criteria[n] = ""
    /\ load_yaml_config(outcome.criteria.filter_path) # Nothing =>
           /\ outcome.criteria.filter_path.content.tool_category = NoCategories
           /\ \A n \in {"enabled_tools", "disabled_tools", "enabled_categories",
                         "disabled_categories", "enabled_tools_regex",
                         "disabled_tools_regex"} :
                  outcome.criteria.filter_path.content.tool_filters[n] = <<>>

\* the registered tools whose identifier is in the fixed core list
CoreOf(registry) == (DOMAIN registry) \cap Range(core_tools)

\* C11, as stated: with writing allowed and nothing configured the call keeps
\* exactly the registered tools whose identifier is in the core list (read
\* here on the registries whose display names are unique, case ignored).
C11_KeepsExactlyCoreTools ==
    (NothingConfigured /\ UniqueIgnoringCase(outcome.before)) =>
        Target(outcome.target) = Without(outcome.before,
                                         (DOMAIN outcome.before) \ CoreOf(outcome.before))

\* no other tool of the registry has this tool's display name, case ignored
UniquelyNamed(registry, k) ==
    \A j \in (DOMAIN registry) \ {k} :
        Lower(registry[j].display_name) # Lower(registry[k].display_name)

\* C11: with writing allowed and nothing configured, on a registry that holds
\* a core tool the call keeps a tool whose display name no other tool shares
\* exactly when its identifier is in the core list, and changes no tool it
\* keeps; on a registry that holds no core tool it removes nothing.
C11_KeepsCoreWhenRegistered ==
    NothingConfigured =>
        /\ CoreOf(outcome.before) = {} => Target(outcome.target) = outcome.before
        /\ CoreOf(outcome.before) # {} =>
               /\ \A k \in DOMAIN outcome.before :
                      UniquelyNamed(outcome.before, k) =>
                          (k \in DOMAIN Target(outcome.target)
                               <=> k \in CoreOf(outcome.before))
               /\ \A k \in DOMAIN Target(outcome.target) :
                      /\ k \in DOMAIN outcome.before
                      /\ Target(outcome.target)[k] = outcome.before[k]

\* A call that kept the core tools of a registry and removed another tool.
C11_Witness ==
    /\ NothingConfigured
    /\ CoreOf(outcome.before) # {}
    /\ DOMAIN Target(outcome.target) = CoreOf(outcome.before)
    /\ DOMAIN outcome.before # CoreOf(outcome.before)

\* A name of an explicit list or of a category expansion that is the display
\* name of no tool, case ignored.
Unresolved(lists, category_to_tools, display_name) ==
    \E n \in Range(lists.enabled_tool_list) \cup Range(lists.disabled_tool_list)
              \cup Range(process_categories(lists.enabled_category_list, category_to_tools))
              \cup Range(process_categories(lists.disabled_category_list, category_to_tools)) :
        Lower(n) \notin DOMAIN display_name

\* C12: a call in which a name of a list or of a category expansion does not
\* resolve to a display name fails: it raises an error to its caller.
C12_UnresolvedNameFails ==
    (/\ Filtered
     /\ Unresolved(CriteriaLists(outcome.criteria,
                                 load_yaml_config(outcome.criteria.filter_path)),
                   CategoryToTools(outcome.before,
                                   load_yaml_config(outcome.criteria.filter_path),
                                   ParsedCategories(outcome.criteria)),
                   DisplayNameLookup(outcome.before))) =>
        outcome.raised # None

\* The tools the write gate of the call removed: none when writing was
\* allowed or the call failed before the gate.
RemovedByGate ==
    IF outcome.allow_write = Some(TRUE) \/ outcome.error = "TypeError" THEN {}
    ELSE {k \in DOMAIN outcome.before : ~Contains(outcome.before[k].http_methods, "GET")}

\* The display names of the tools the write gate left.
NamesAfterGate ==
    {outcome.before[k].display_name : k \in (DOMAIN outcome.before) \ RemovedByGate}

\* The name starts with the text of the pattern, letter case ignored.
MatchesFromStart(regex, name) ==
    \E n \in 0..Len(name) :
        /\ Lower(SubSeq(name, 1, n)) \o ".*" = Lower(regex)
           \/ Lower(SubSeq(name, 1, n)) = Lower(regex)

\* The patterns of one kind, of the file and of the argument.
PatternsOf(kind) ==
    Range(CriteriaLists(outcome.criteria,
                        load_yaml_config(outcome.criteria.filter_path))[kind])

\* C26: the enabled and the disabled patterns are matched, letter case
\* ignored and from the start of the name, against the display names of the
\* tools the write gate left, and against no other: a tool the gate removed
\* gives no name to the names derived from the patterns.
C26_PatternsSeeToolsAfterGate ==
    Filtered =>
        /\ \A n \in Range(outcome.enabled_tools_from_regex) :
               /\ n \in NamesAfterGate
               /\ \E regex \in PatternsOf("enabled_tools_regex_list") :
                      MatchesFromStart(regex, n)
        /\ \A n \in Range(outcome.disabled_tools_from_regex) :
               /\ n \in NamesAfterGate
               /\ \E regex \in PatternsOf("disabled_tools_regex_list") :
                      MatchesFromStart(regex, n)
        /\ outcome.error \notin {"TypeError", "re.error"} =>
               /\ \A n \in NamesAfterGate :
                      (\E regex \in PatternsOf("enabled_tools_regex_list") :
                           MatchesFromStart(regex, n))
                          => n \in Range(outcome.enabled_tools_from_regex)
               /\ \A n \in NamesAfterGate :
                      (\E regex \in PatternsOf("disabled_tools_regex_list") :
                           MatchesFromStart(regex, n))
                          => n \in Range(outcome.disabled_tools_from_regex)

\* Writing is forbidden, the one pattern matches the name of a tool that only
\* writes, and no name is derived from it.
C26_Witness ==
    /\ Filtered
    /\ outcome.error = None
    /\ outcome.allow_write = Some(FALSE)
    /\ outcome.criteria.enabled_tools_regex = "indices.*"
    /\ "IndicesCreateTool" \in RemovedByGate
    /\ outcome.enabled_tools_from_regex = <<>>
    /\ "SearchIndexTool" \in DOMAIN Target(outcome.target)

\* The tools of the registry the call was given whose display name is no
\* longer their identifier.
RenamedTools == {k \in DOMAIN outcome.before : outcome.before[k].display_name # k}

\* The names the disabled_tools of the file and of the argument give.
DisabledNames == PatternsOf("disabled_tool_list")

\* A disabled criterion of the call selects the display name: disabled_tools
\* names it, letter case ignored, or a disabled pattern matches it.
DisabledByDisplayName(display) ==
    \/ \E n \in DisabledNames : Lower(n) = Lower(display)
    \/ \E regex \in PatternsOf("disabled_tools_regex_list") :
           MatchesFromStart(regex, display)

\* disabled_tools of the call, given by argument, is the identifier of the
\* tool and nothing else, and no disabled criterion selects a display name
\* of the registry by that text.
OnlyIdentifierNamed(k) ==
    /\ outcome.criteria.disabled_tools = k
    /\ load_yaml_config(outcome.criteria.filter_path) = Nothing
    /\ outcome.criteria.disabled_tools_regex = ""
    /\ outcome.criteria.disabled_categories = ""
    /\ \A t \in DOMAIN outcome.before : Lower(outcome.before[t].display_name) # Lower(k)

\* C27: the names of a filter are resolved through the display names of the
\* tools, letter case ignored, and not through their identifiers: a renamed
\* tool is removed when disabled_tools names its display name or a disabled
\* pattern matches it (in a call that logged no error), and naming only its
\* identifier in disabled_tools leaves it: it is in the registry exactly when
\* the same call without disabled_tools keeps it.
C27_ResolvedThroughDisplayNames ==
    Filtered =>
        \A k \in RenamedTools :
            /\ (outcome.error = None /\ DisabledByDisplayName(outcome.before[k].display_name))
                   => k \notin DOMAIN Target(outcome.target)
            /\ OnlyIdentifierNamed(k)
                   => (k \in DOMAIN Target(outcome.target)
                       <=> k \in DOMAIN process_tool_filter(
                                            [outcome.criteria EXCEPT !.disabled_tools = ""],
                                            outcome.before).registry)

\* ListIndexTool, renamed Lister, is named by the lower-cased display name in
\* disabled_tools and is removed, the other core tool staying.
C27_Witness ==
    /\ Filtered
    /\ outcome.error = None
    /\ outcome.criteria.disabled_tools = "lister"
    /\ "ListIndexTool" \in RenamedTools
    /\ outcome.before["ListIndexTool"].display_name = "Lister"
    /\ "ListIndexTool" \notin DOMAIN Target(outcome.target)
    /\ "IndicesCreateTool" \in DOMAIN outcome.before

\* C28: filtering is all or nothing: a call of process_tool_filter that hits
\* an error at any step (a categories text that is no mapping, a pattern that
\* does not compile, a name that does not resolve) leaves the registry exactly
\* as it was before the call, never with the write gate applied and the later
\* steps not.
C28_ErrorLeavesRegistry ==
    (Filtered /\ outcome.error # None) => Target(outcome.target) = outcome.before

(***************************************************************************)
(* Properties of _resolve_allow_write_setting and get_tools                *)
(***************************************************************************)
Resolved == outcome.op = "_resolve_allow_write_setting"

\* the allow_write entries of the settings of a file
AllowWriteEntries(config_file_path) ==
    {e \in Range(config_file_path.content.tool_filters.settings) : e.key = "allow_write"}

\* The file of the last call exists, loads and has allow_write in its settings.
FileSetsAllowWrite ==
    /\ outcome.config_file_path.path
    /\ outcome.exists
    /\ outcome.config_file_path.readable
    /\ ~outcome.raises
    /\ AllowWriteEntries(outcome.config_file_path) # {}

\* the variable is unset, or is 'true' in some letter case
EnvironmentSaysTrue(env) == env = None \/ Lower(env) = "true"

\* C13: _resolve_allow_write_setting returns the allow_write of the file's
\* settings when the file exists, loads and has that key, and in every other
\* case whether the environment variable is 'true', case ignored, or unset.
C13_FileThenEnvironment ==
    Resolved =>
        /\ FileSetsAllowWrite =>
               \A e \in AllowWriteEntries(outcome.config_file_path) :
                   outcome.result = e.value
        /\ ~FileSetsAllowWrite =>
               outcome.result = EnvironmentSaysTrue(outcome.env)

\* A file that allows writing read while the environment forbids it.
C13_Witness ==
    /\ Resolved
    /\ FileSetsAllowWrite
    /\ outcome.env = "false"
    /\ outcome.result = TRUE

Read == outcome.op = "get_allow_write_setting"

\* C14: the setting is unset at startup, and a read then gives the
\* environment's answer; a call of get_tools publishes what it resolved; no
\* other step changes the published setting, whatever it does to the
\* environment, and a read gives the published setting.
C14_PublishedOncePerPass ==
    /\ [](outcome.op = "init" => _resolved_allow_write_setting = Nothing)
    /\ []((Read /\ _resolved_allow_write_setting = Nothing) =>
              outcome.result = EnvironmentSaysTrue(env_allow_write))
    /\ []((Read /\ _resolved_allow_write_setting # Nothing) =>
              outcome.result = _resolved_allow_write_setting[1])
    /\ [][IF outcome'.op = "get_tools"
          THEN _resolved_allow_write_setting' = Some(outcome'.resolved)
          ELSE _resolved_allow_write_setting' = _resolved_allow_write_setting]_vars

\* A read, after get_tools published that writing is forbidden and the
\* environment was then changed to allow it.
C14_Witness ==
    /\ Read
    /\ _resolved_allow_write_setting = Some(FALSE)
    /\ env_allow_write = "true"
    /\ outcome.result = FALSE

Got_tools == outcome.op = "get_tools"

\* C15: in mode 'multi' get_tools returns the registry it was given, with
\* every tool and every field of it as before the call, whatever the file
\* and the environment say, and the registry object itself is left as it was.
C15_MultiReturnsRegistry ==
    (Got_tools /\ outcome.mode = "multi") =>
        /\ outcome.error = None
        /\ outcome.returned = outcome.before
        /\ Target(outcome.target) = outcome.before

\* A call in mode 'multi' with a file that disables SearchIndexTool, on a
\* registry that has the tool.
C15_Witness ==
    /\ Got_tools
    /\ outcome.mode = "multi"
    /\ outcome.exists
    /\ outcome.config_file_path.content.tool_filters.disabled_tools = <<"SearchIndexTool">>
    /\ "SearchIndexTool" \in DOMAIN outcome.returned

InSingleMode == Got_tools /\ outcome.mode = "single"

\* exposed is registered without the base fields: a properties section is
\* neither added nor removed, and every other property and key is kept
ExposesSchema(registered, exposed) ==
    /\ (exposed.properties = <<>>) <=> (registered.properties = <<>>)
    /\ PropertiesOf(exposed) = PropertiesOf(registered) \ base_fields
    /\ exposed.type = registered.type

\* C16: in mode 'single' get_tools returns without error, no tool of the
\* returned mapping has opensearch_cluster_name among the properties of its
\* input schema, and the schema of each returned tool is the schema of a
\* tool the filter left, of that display name, with every other property
\* kept and with no properties section added where there was none.
C16_BaseFieldsRemoved ==
    InSingleMode =>
        /\ outcome.error = None
        /\ \A n \in DOMAIN outcome.returned :
               /\ PropertiesOf(outcome.returned[n].input_schema) \cap base_fields = {}
               /\ \E k \in DOMAIN outcome.filtered :
                      /\ outcome.filtered[k].display_name = n
                      /\ ExposesSchema(outcome.filtered[k].input_schema,
                                       outcome.returned[n].input_schema)

\* A call in mode 'single' that returned SearchIndexTool, registered with
\* opensearch_cluster_name and query, with query alone, and ListIndexTool,
\* registered without properties, without properties.
C16_Witness ==
    /\ InSingleMode
    /\ {"SearchIndexTool", "ListIndexTool"} \subseteq DOMAIN outcome.filtered
    /\ {"SearchIndexTool", "ListIndexTool"} \subseteq DOMAIN outcome.returned
    /\ "opensearch_cluster_name" \in PropertiesOf(outcome.filtered["SearchIndexTool"].input_schema)
    /\ PropertiesOf(outcome.returned["SearchIndexTool"].input_schema) = {"query"}
    /\ outcome.returned["ListIndexTool"].input_schema.properties = <<>>

\* the tools the filter left that the evaluator accepts for the version
Accepted(registry, version) ==
    {k \in DOMAIN registry : is_tool_compatible(version, registry[k]) = Ok(TRUE)}

\* C17: in mode 'single' the returned mapping has exactly one entry for each
\* tool the filter left and the evaluator accepts for the reference version,
\* under the display name of the tool and holding its descriptor, and it has
\* no other entry.
C17_OneEntryPerAcceptedTool ==
    (InSingleMode /\ outcome.error = None) =>
        /\ DOMAIN outcome.returned =
               {outcome.filtered[k].display_name :
                    k \in Accepted(outcome.filtered, outcome.version)}
        /\ Cardinality(DOMAIN outcome.returned) =
               Cardinality(Accepted(outcome.filtered, outcome.version))
        /\ \A k \in Accepted(outcome.filtered, outcome.version) :
               outcome.returned[outcome.filtered[k].display_name].description =
                   outcome.filtered[k].description

\* C29: in mode 'single' get_tools strips the base fields on a copy of each
\* entry, so the tool info it was given is not modified: every entry still in
\* the registry the caller passed has, after the call, the properties of its
\* input schema it had before, opensearch_cluster_name among them.
C29_RegistrySchemasKept ==
    InSingleMode =>
        \A k \in DOMAIN Target(outcome.target) :
            /\ k \in DOMAIN outcome.before
            /\ Target(outcome.target)[k].input_schema.properties =
                   outcome.before[k].input_schema.properties

\* The tools of the registry given to the call that declare no GET.
WriteOnlyTools ==
    {k \in DOMAIN outcome.before : ~Contains(outcome.before[k].http_methods, "GET")}

\* The tools the enabled_tools of the file name by their display name.
EnabledByFile ==
    {k \in DOMAIN outcome.before :
         /\ load_yaml_config(outcome.config_file_path) # Nothing
         /\ outcome.before[k].display_name
                \in Range(outcome.config_file_path.content.tool_filters.enabled_tools)}

\* C30: in mode 'single' the write gate the filter of get_tools applies is
\* the gate get_tools publishes, whatever the file and the environment say:
\* when get_allow_write_setting() is false after the call no tool without a
\* read-only method is exposed, and when it is true such a tool is exposed
\* (read here for the tools the file enables by name, which no other step of
\* the filter removes).
C30_AppliedGateIsPublishedGate ==
    (InSingleMode /\ outcome.error = None) =>
        IF get_allow_write_setting(_resolved_allow_write_setting, env_allow_write)
        THEN WriteOnlyTools \cap EnabledByFile \subseteq DOMAIN outcome.filtered
        ELSE WriteOnlyTools \cap DOMAIN outcome.filtered = {}

(***************************************************************************)
(* Properties of is_tool_compatible                                        *)
(***************************************************************************)
Evaluated == outcome.op = "is_tool_compatible"

\* The versions and the bounds of the model as semantic versions, a partial
\* bound with 0 for what it leaves out.
SemVer ==
    [s \in (ReferenceVersions \cup {"2.5", "3"}) \ {None} |->
        CASE s = "0.0.1" -> <<0, 0, 1>>
          [] s = "1.0.0" -> <<1, 0, 0>>
          [] s = "1.5.0" -> <<1, 5, 0>>
          [] s = "2.0.0" -> <<2, 0, 0>>
          [] s = "2.1.0" -> <<2, 1, 0>>
          [] s = "2.4.9" -> <<2, 4, 9>>
          [] s = "2.5" -> <<2, 5, 0>>
          [] s = "2.5.0" -> <<2, 5, 0>>
          [] s = "2.5.1" -> <<2, 5, 1>>
          [] s = "2.15.0" -> <<2, 15, 0>>
          [] s = "3" -> <<3, 0, 0>>
          [] s = "3.0.0" -> <<3, 0, 0>>
          [] s = "3.0.1" -> <<3, 0, 1>>
          [] s = "3.1.0" -> <<3, 1, 0>>
          [] s = "99.0.0" -> <<99, 0, 0>>]

\* the place of a semantic version in the order of precedence
Precedence(v) == (v[1] * 1000 + v[2]) * 1000 + v[3]

\* version is at or above min_version and at or below max_version, a bound
\* that is left out being no bound
WithinBounds(version, tool_info) ==
    /\ tool_info.min_version # None =>
           Precedence(SemVer[tool_info.min_version]) <= Precedence(SemVer[version])
    /\ tool_info.max_version # None =>
           Precedence(SemVer[version]) <= Precedence(SemVer[tool_info.max_version])

\* C18: with bounds that are versions or left out, the evaluator returns true
\* exactly when the reference version is null or lies between min_version
\* and max_version, both inclusive, in the order of semantic versions, a
\* bound that is left out being no bound and a partial bound '2.5' or '3'
\* standing for '2.5.0' or '3.0.0'; otherwise it returns false.
C18_WithinInclusiveBounds ==
    (/\ Evaluated
     /\ outcome.tool_info.min_version \in DOMAIN SemVer \cup {None}
     /\ outcome.tool_info.max_version \in DOMAIN SemVer \cup {None}) =>
        outcome.result = Ok(\/ outcome.current_version = None
                            \/ WithinBounds(outcome.current_version, outcome.tool_info))

\* The evaluator asked about 2.15.0 for a tool of the bounds '2.5' and '3',
\* and answering true.
C18_Witness ==
    /\ Evaluated
    /\ outcome.current_version = "2.15.0"
    /\ outcome.tool_info = [min_version |-> "2.5", max_version |-> "3"]
    /\ outcome.result = Ok(TRUE)

(***************************************************************************)
(* Properties of generic_opensearch_api_tool                               *)
(***************************************************************************)
\* C1: a call with a mutating method, in any letter case, while the write
\* setting reads false performs no request and replies that write operations
\* are disabled.
C1_WriteRejected ==
    (/\ outcome.op = "generic_opensearch_api_tool"
     /\ Upper(outcome.method) \in Range(write_methods)
     /\ ~get_allow_write_setting(_resolved_allow_write_setting, env_allow_write)) =>
        /\ ~outcome.performed
        /\ Contains(outcome.text, "Write operations are disabled")

====
